---- MODULE Spec2Model ----
(***************************************************************************)
(* S3-Proxy: the replication engine of internal/api/proxy.go (handlePut,   *)
(* handleGet, handleHead, handleDelete) over the bindings of one logical   *)
(* bucket, with the layered crypto pipeline of internal/crypto.            *)
(*                                                                         *)
(* One HTTP request is in flight at a time (a sequential client).  Inside  *)
(* handlePut and handleDelete the per-binding goroutines interleave.       *)
(***************************************************************************)
EXTENDS Integers, Sequences, FiniteSets, TLC

(***************************************************************************)
(* Bounds of the model.                                                    *)
(***************************************************************************)
\* number of bindings of the logical bucket (len(bucket.backends))
NumBackends == 2
\* number of HTTP requests in one behaviour
MaxRequests == 2

Backends == 1..NumBackends
\* object keys
Keys == {"k"}
\* request bodies (plaintext byte sequences)
Bodies == {<< >>, <<7>>}
\* values the random source hands out for a nonce
NonceSeeds == {17, 42}

(***************************************************************************)
(* The AEAD layers (internal/crypto/iface.go, chacha.go).  The primitive   *)
(* itself (cipher.AEAD Seal/Open) is library code: it is modelled by its   *)
(* contract, as a keyed keystream plus a keyed tag over nonce and message. *)
(***************************************************************************)
\* gcm.NonceSize() / aead.NonceSize(): 12 bytes for AES-GCM and ChaCha20-Poly1305
NonceSize == 12
\* the tag Seal appends: 16 bytes for both
TagSize == 16

AlgId(alg) == IF alg = "aes" THEN 1 ELSE 2

RECURSIVE SumSeq(_)
SumSeq(s) == IF s = << >> THEN 0 ELSE Head(s) + SumSeq(Tail(s))

\* the bytes io.ReadFull(rand.Reader, nonce) leaves in nonce
NonceBytes(seed) == [i \in 1..NonceSize |-> (seed + i) % 256]

KeyStream(layer, nonce, i) == (layer.key + AlgId(layer.alg) + nonce[1] + i) % 256

Tag(layer, nonce, pt) ==
    [j \in 1..TagSize |-> (layer.key + AlgId(layer.alg) + SumSeq(nonce) + SumSeq(pt) + j) % 256]

\* aead.Seal(nonce, nonce, plaintext, nil): nonce || ciphertext || tag
Seal(layer, nonce, pt) ==
    nonce \o [i \in 1..Len(pt) |-> (pt[i] + KeyStream(layer, nonce, i)) % 256]
          \o Tag(layer, nonce, pt)

\* aead.Open(nil, nonce, ciphertext, nil)
Open(layer, nonce, ct) ==
    IF Len(ct) < TagSize
    THEN [ok |-> FALSE, data |-> << >>]
    ELSE LET n    == Len(ct) - TagSize
             body == SubSeq(ct, 1, n)
             tag  == SubSeq(ct, n + 1, Len(ct))
             pt   == [i \in 1..n |-> (body[i] + 256 - KeyStream(layer, nonce, i)) % 256]
         IN  IF tag = Tag(layer, nonce, pt)
             THEN [ok |-> TRUE, data |-> pt]
             ELSE [ok |-> FALSE, data |-> << >>]

\* AESCrypt.Encrypt / ChaChaCrypt.Encrypt; randOk is the outcome of io.ReadFull(rand.Reader)
LayerEncrypt(layer, seed, randOk, plaintext) ==
    IF ~randOk
    THEN [ok |-> FALSE, data |-> << >>]
    ELSE [ok |-> TRUE, data |-> Seal(layer, NonceBytes(seed), plaintext)]

\* AESCrypt.Decrypt / ChaChaCrypt.Decrypt
LayerDecrypt(layer, ciphertext) ==
    IF Len(ciphertext) < NonceSize
    THEN [ok |-> FALSE, data |-> << >>]
    ELSE Open(layer, SubSeq(ciphertext, 1, NonceSize),
              SubSeq(ciphertext, NonceSize + 1, Len(ciphertext)))

(***************************************************************************)
(* MultiLayerCrypt (internal/crypto/layers.go).                            *)
(***************************************************************************)
RECURSIVE EncryptFrom(_, _, _, _, _)
\* a MultiLayerCrypt.Encrypt that hands back what the layers before the failing
\* one produced
EncryptFromPartial(layers, i, seed, failAt, data) ==
    IF i > Len(layers)
    THEN [ok |-> TRUE, data |-> data]
    ELSE LET r == LayerEncrypt(layers[i], seed + i, failAt # i, data)
         IN  IF ~r.ok
             THEN [ok |-> FALSE, data |-> data]
             ELSE EncryptFrom(layers, i + 1, seed, failAt, r.data)

EncryptFrom(layers, i, seed, failAt, data) ==
    IF i > Len(layers)
    THEN [ok |-> TRUE, data |-> data]
    ELSE LET r == LayerEncrypt(layers[i], seed + i, failAt # i, data)
         IN  IF ~r.ok
             THEN [ok |-> FALSE, data |-> << >>]
             ELSE EncryptFrom(layers, i + 1, seed, failAt, r.data)

\* MultiLayerCrypt.Encrypt: the layers in forward order.  seed is where the random
\* source stands (layer i draws seed + i for its nonce); failAt is the layer whose
\* random source fails (0: none).
Encrypt(layers, seed, failAt, data) == EncryptFrom(layers, 1, seed, failAt, data)

RECURSIVE DecryptFrom(_, _, _)
DecryptFrom(layers, i, data) ==
    IF i < 1
    THEN [ok |-> TRUE, data |-> data]
    ELSE LET r == LayerDecrypt(layers[i], data)
         IN  IF ~r.ok
             THEN [ok |-> FALSE, data |-> << >>]
             ELSE DecryptFrom(layers, i - 1, r.data)

RECURSIVE DecryptForwardFrom(_, _, _)
DecryptForwardFrom(layers, i, data) ==
    IF i > Len(layers)
    THEN [ok |-> TRUE, data |-> data]
    ELSE LET r == LayerDecrypt(layers[i], data)
         IN  IF ~r.ok
             THEN [ok |-> FALSE, data |-> << >>]
             ELSE DecryptForwardFrom(layers, i + 1, r.data)

\* a Decrypt that undoes the layers in the order Encrypt applied them
DecryptForward(layers, data) == DecryptForwardFrom(layers, 1, data)

\* MultiLayerCrypt.Decrypt: the layers in reverse order
Decrypt(layers, data) == DecryptFrom(layers, Len(layers), data)

(***************************************************************************)
(* Go error values.  Nil is the nil error; every other value names an      *)
(* error, and ErrText gives the words of its Error() text that the         *)
(* handlers search for.                                                    *)
(***************************************************************************)
Nil == "nil"

ErrText(e) ==
    CASE e = "NoSuchKey"     -> <<"StatusCode:", "404", "NoSuchKey">>
      [] e = "NoSuchBucket"  -> <<"StatusCode:", "404", "NoSuchBucket">>
      [] e = "NotFound"      -> <<"StatusCode:", "404", "NotFound">>
      [] e = "AccessDenied"  -> <<"StatusCode:", "403", "AccessDenied">>
      [] e = "EncryptFailed" -> <<"rand", "failed">>
      [] OTHER               -> <<e>>

\* strings.ToLower, word by word
ToLower(w) ==
    CASE w = "NoSuchKey"    -> "nosuchkey"
      [] w = "NoSuchBucket" -> "nosuchbucket"
      [] w = "NotFound"     -> "notfound"
      [] w = "AccessDenied" -> "accessdenied"
      [] w = "StatusCode:"  -> "statuscode:"
      [] OTHER              -> w

\* strings.Contains, word by word
Contains(text, w) == \E i \in 1..Len(text) : text[i] = w

\* a test that counts every error as a not-found error
IsNotFoundAlways(e) == TRUE

\* handleGet / handleHead: the test that increments notFoundCount
IsNotFound(e) ==
    LET errStr == [i \in 1..Len(ErrText(e)) |-> ToLower(ErrText(e)[i])]
    IN  \/ Contains(errStr, "nosuchkey")
        \/ Contains(errStr, "nosuchbucket")
        \/ Contains(errStr, "notfound")
        \/ Contains(errStr, "404")

\* handleDelete: strings.Contains(err.Error(), "NoSuchKey")
IsNoSuchKey(e) == Contains(ErrText(e), "NoSuchKey")

(***************************************************************************)
(* Configuration built by api.New: the bindings' crypto pipelines.         *)
(***************************************************************************)
NoCrypto == [nil |-> TRUE, layers |-> << >>]
\* the chacha20poly1305 + aes(gcm) layers of the "default-triple" pipeline
Pipeline == [nil |-> FALSE,
             layers |-> << [alg |-> "chacha20poly1305", key |-> 3],
                           [alg |-> "aes", key |-> 5] >>]

\* an object that is absent from a physical bucket
Absent == << -1 >>
\* bytes written to a physical bucket directly, not through the proxy
\* (cmd/s3_write.go): a blob of ciphertext length whose tag does not verify
Forged == [i \in 1..(2 * (NonceSize + TagSize) + 1) |-> 0]
\* the body of an object the proxy stored at the key in the past
OldBody == <<9, 7>>
\* what a physical bucket can hold at a key when the proxy starts: nothing, an
\* object stored through the binding, or bytes uploaded directly
InitialBlobs(c) ==
    {Absent, Forged,
     IF c.nil THEN OldBody ELSE Encrypt(c.layers, 17, 0, OldBody).data}

VARIABLES
    crypto,         \* crypto[i]: backend.crypto of binding i
    store,          \* store[i][k]: the bytes physical bucket i holds at key k
    phase,          \* "Idle", "Fanout" (handler running), "Responded"
    req,            \* the request being served: method, key, body
    err,            \* handlePut: the err variable the goroutines share
    pc,             \* pc[i]: position of the goroutine of binding i
    encData,        \* handlePut: encData of goroutine i
    successCount,   \* handlePut / handleDelete
    errCh,          \* the values sent on errCh, in order
    idx,            \* handleGet / handleHead: the binding the loop is at
    notFoundCount,  \* handleGet / handleHead
    backendErrors,  \* handleGet / handleHead: one entry per failed binding
    resp,           \* the response written to w
    encOutcome,     \* history: what Encrypt returned in goroutine i
    putOutcome,     \* history: what PutObject returned in goroutine i
    delOutcome,     \* history: what DeleteObject returned in goroutine i
    contacted,      \* history: the backend calls of handleGet / handleHead, in order
                    \* (with its outcome, for the size probe of handleHead)
    fault,          \* history: a backend call, a body read or Encrypt failed in this request
    prev,           \* history: the request served just before this one
    nreq            \* number of requests and direct writes so far

\* Proxy.ServeHTTP, one request from its arrival to the handler it is given to
VARIABLES
    r,              \* the *http.Request: method, path (URL.Path), header (Authorization)
    hpc,            \* position in ServeHTTP
    authErr,        \* what AuthenticateRequest returned
    strBucket,      \* ServeHTTP: the first path segment
    strKey,         \* ServeHTTP: the rest of the path
    routed,         \* history: the handlers ServeHTTP called, in order
    calls,          \* history: the backend calls issued for the request, in order
    written         \* history: the responses ServeHTTP wrote itself, in order

httpVars == <<r, hpc, authErr, strBucket, strKey, routed, calls, written>>

\* MultiLayerCrypt on its own: one Encrypt and one Decrypt
VARIABLES
    layers,         \* c.layers of the MultiLayerCrypt that decrypts
    writer,         \* the layers of the MultiLayerCrypt that encrypted the data
    data,           \* the bytes given to Encrypt
    encrypted,      \* what Encrypt returned
    tampered,       \* history: the bytes were changed after Encrypt returned
    decrypted,      \* what Decrypt returned
    cpc             \* "plain", "encrypted", "decrypted"

cryptVars == <<layers, writer, data, encrypted, tampered, decrypted, cpc>>

\* the filesystem adapter (internal/fusefs/s3fs.go) mounted on the first binding
VARIABLES
    fsCrypto,       \* fs.crypto
    objects,        \* objects[k]: the bytes the physical bucket holds at key k
    metadataCache,  \* fs.metadataCache
    handle,         \* the open S3FileHandle: node.key, writable, data, dirty
    now,            \* time.Now()
    ret,            \* history: the last callback, its arguments and what it returned
    nops            \* number of callbacks so far

fsVars == <<fsCrypto, objects, metadataCache, handle, now, ret, nops>>

\* api.New and the proxy it returns
VARIABLES
    cfgBuckets,     \* cfg.S3Buckets: per logical bucket name, the list of its backends
    started,        \* New has returned
    newErr,         \* the error New returned
    pBuckets,       \* p.buckets: per logical bucket name, bucket.backends
    served          \* history: the last request a handler evaluated

regVars == <<cfgBuckets, started, newErr, pBuckets, served>>

\* callbacks of the filesystem adapter that overlap: bazil/fuse serves every
\* request of the kernel in a goroutine of its own
VARIABLES
    thr,            \* thr[t]: the callback goroutine t is in, and where in it
    mu,             \* h.mu: the goroutine that holds it (0: none)
    unsynced,       \* history: the accesses to h.data and h.dirty made without h.mu
    gone            \* history: the keys a Remove deleted and nothing uploaded since

concVars == <<thr, mu, unsynced, gone>>

objVars == <<crypto, store, phase, req, err, pc, encData, successCount, errCh, idx,
             notFoundCount, backendErrors, resp, encOutcome, putOutcome, delOutcome,
             contacted, fault, prev, nreq>>

vars == <<objVars, httpVars, cryptVars, fsVars, regVars, concVars>>

\* what the actions of one component leave alone
notObjVars == <<httpVars, cryptVars, fsVars, regVars, concVars>>
notHttpVars == <<objVars, cryptVars, fsVars, regVars, concVars>>
notCryptVars == <<objVars, httpVars, fsVars, regVars, concVars>>
notFsVars == <<objVars, httpVars, cryptVars, regVars, concVars>>
notRegVars == <<objVars, httpVars, cryptVars, fsVars, concVars>>
notFsConcVars == <<objVars, httpVars, cryptVars, regVars>>

NoReq  == [method |-> "", key |-> "", body |-> << >>, cancelled |-> FALSE]
NoResp == [status |-> 0, body |-> << >>, contentLength |-> -1, error |-> "",
           contentType |-> ""]
NoPrev == [method |-> "", key |-> "", body |-> << >>, status |-> 0,
           contentLength |-> -1, fault |-> FALSE, putOk |-> {}, putFail |-> {},
           delNil |-> {}]

\* no request is in ServeHTTP
HttpIdle ==
    /\ r = [method |-> "", path |-> << >>, header |-> << >>]
    /\ hpc = "idle"
    /\ authErr = Nil
    /\ strBucket = << >>
    /\ strKey = << >>
    /\ routed = << >>
    /\ calls = << >>
    /\ written = << >>

\* api.New is not under study: the proxy is the one of the configuration above
NoServed == [method |-> "", bucket |-> << >>, handler |-> "", bindings |-> -1, status |-> 0]
RegIdle ==
    /\ cfgBuckets = << >>
    /\ started = FALSE
    /\ newErr = Nil
    /\ pBuckets = << >>
    /\ served = NoServed

\* the goroutines serving the callbacks: two that can overlap
Threads == {1, 2}
NoCall == [op |-> "", pc |-> "idle", key |-> << >>, offset |-> 0, bytes |-> << >>,
           seen |-> -1]

\* no callback is running; callbacks are taken one at a time
ConcIdle ==
    /\ thr = [t \in Threads |-> NoCall]
    /\ mu = 0
    /\ unsynced = {}
    /\ gone = {}

\* no MultiLayerCrypt is being exercised on its own
CryptIdle ==
    /\ layers = << >>
    /\ writer = << >>
    /\ data = << >>
    /\ encrypted = [ok |-> TRUE, data |-> << >>]
    /\ tampered = FALSE
    /\ decrypted = [ok |-> TRUE, data |-> << >>]
    /\ cpc = "idle"

\* a nil *bytes.Buffer, a released handle, an empty cache slot, a callback that
\* has not happened
NilBuffer == << -1 >>
NoHandle == [key |-> << >>, writable |-> FALSE, data |-> NilBuffer, dirty |-> FALSE,
             open |-> FALSE]
NoEntry == [size |-> -1, lastModified |-> -1, isDir |-> FALSE, cacheTime |-> -1]
NoRet == [op |-> "", key |-> << >>, offset |-> 0, bytes |-> << >>, size |-> 0,
          errno |-> "nil", data |-> << >>, calls |-> << >>, before |-> NoHandle,
          err |-> "nil", attr |-> [size |-> -1, mtime |-> -1], entry |-> NoEntry,
          at |-> 0, newKey |-> << >>, probes |-> << >>,
          node |-> [key |-> << >>, isDir |-> FALSE]]

\* the filesystem is not mounted
FsIdle ==
    /\ fsCrypto = [nil |-> TRUE, layers |-> << >>]
    /\ objects = << >>
    /\ metadataCache = << >>
    /\ handle = NoHandle
    /\ now = 0
    /\ ret = NoRet
    /\ nops = 0

\* no request has been served yet
InitRequest ==
    /\ phase = "Idle"
    /\ req = NoReq
    /\ err = Nil
    /\ pc = [i \in Backends |-> "idle"]
    /\ encData = [i \in Backends |-> << >>]
    /\ successCount = 0
    /\ errCh = << >>
    /\ idx = 1
    /\ notFoundCount = 0
    /\ backendErrors = << >>
    /\ resp = NoResp
    /\ encOutcome = [i \in Backends |-> "none"]
    /\ putOutcome = [i \in Backends |-> "none"]
    /\ delOutcome = [i \in Backends |-> "none"]
    /\ contacted = << >>
    /\ fault = FALSE
    /\ prev = NoPrev
    /\ nreq = 0

InitObjects ==
    /\ crypto \in [Backends -> {NoCrypto, Pipeline}]
    /\ store \in [Backends -> [Keys -> InitialBlobs(NoCrypto) \cup InitialBlobs(Pipeline)]]
    /\ \A i \in Backends, k \in Keys : store[i][k] \in InitialBlobs(crypto[i])
    /\ InitRequest

Init == InitObjects /\ HttpIdle /\ CryptIdle /\ FsIdle /\ RegIdle /\ ConcIdle

\* what the request being served leaves for the next one to look back at
Summary ==
    [method |-> req.method, key |-> req.key, body |-> req.body, status |-> resp.status,
     contentLength |-> resp.contentLength, fault |-> fault,
     putOk |-> {i \in Backends : putOutcome[i] = "ok"},
     putFail |-> {i \in Backends : putOutcome[i] = "fail"},
     delNil |-> {i \in Backends : delOutcome[i] = Nil}]

(***************************************************************************)
(* Proxy.ServeHTTP: a request for /bucket/key of the configured logical    *)
(* bucket is routed by its method.  Begin is the state every handler       *)
(* starts from.                                                            *)
(***************************************************************************)
CanServe == phase \in {"Idle", "Responded"} /\ nreq < MaxRequests

\* backend calls made with the context of the request
RequestCtx == "Request"

\* the context the handlers hand to every backend call: context.Background()
BackendCtx == "Background"

\* ctx.Done() is closed: only the context of the request is ever cancelled, and a
\* call made with a context that is done returns its error without effect
CtxDone(ctx) == ctx = RequestCtx /\ req.cancelled

\* the handler's local variables as a handler finds them
Reset(body) ==
    /\ err' = Nil
    /\ encData' = [i \in Backends |-> body]
    /\ successCount' = 0
    /\ errCh' = << >>
    /\ idx' = 1
    /\ notFoundCount' = 0
    /\ backendErrors' = << >>
    /\ encOutcome' = [i \in Backends |-> "none"]
    /\ putOutcome' = [i \in Backends |-> "none"]
    /\ delOutcome' = [i \in Backends |-> "none"]
    /\ contacted' = << >>

Begin(method, k, body) ==
    /\ req' = [method |-> method, key |-> k, body |-> body, cancelled |-> FALSE]
    /\ prev' = IF phase = "Responded" THEN Summary ELSE prev
    /\ nreq' = nreq + 1
    /\ Reset(body)
    /\ UNCHANGED <<notObjVars, crypto, store>>

(***************************************************************************)
(* handlePut (proxy.go 374-449).                                           *)
(***************************************************************************)
\* io.ReadAll(r.Body), then one goroutine per binding
StartPut(k, body, readOk) ==
    /\ CanServe
    /\ Begin("PUT", k, body)
    /\ fault' = ~readOk
    /\ IF readOk
       THEN /\ phase' = "Fanout"
            /\ pc' = [i \in Backends |-> "start"]
            /\ resp' = NoResp
       ELSE /\ phase' = "Responded"
            /\ pc' = [i \in Backends |-> "idle"]
            /\ resp' = [NoResp EXCEPT !.status = 500, !.error = "ReadError"]

\* encData, err = backend.crypto.Encrypt(data): err is the variable of handlePut,
\* shared by all the goroutines
PutEncrypt(i) ==
    /\ phase = "Fanout" /\ req.method = "PUT"
    /\ pc[i] = "start" /\ ~crypto[i].nil
    /\ \E seed \in NonceSeeds, failAt \in 0..Len(crypto[i].layers) :
          LET enc == Encrypt(crypto[i].layers, seed, failAt, req.body)
          IN  /\ encData' = [encData EXCEPT ![i] = enc.data]
              /\ err' = IF enc.ok THEN Nil ELSE "EncryptFailed"
              /\ encOutcome' = [encOutcome EXCEPT ![i] = IF enc.ok THEN "ok" ELSE "fail"]
              /\ fault' = (fault \/ ~enc.ok)
    /\ pc' = [pc EXCEPT ![i] = "encchk"]
    /\ UNCHANGED <<notObjVars, crypto, store, phase, req, successCount, errCh, idx, notFoundCount,
                   backendErrors, resp, putOutcome, delOutcome, contacted, prev, nreq>>

\* if err != nil { errCh <- err; return }
PutEncCheck(i) ==
    /\ phase = "Fanout" /\ req.method = "PUT"
    /\ pc[i] = "encchk"
    /\ IF err # Nil
       THEN /\ errCh' = Append(errCh, err)
            /\ pc' = [pc EXCEPT ![i] = "done"]
            /\ encData' = [encData EXCEPT ![i] = << >>]
       ELSE /\ errCh' = errCh
            /\ pc' = [pc EXCEPT ![i] = "put"]
            /\ encData' = encData
    /\ UNCHANGED <<notObjVars, crypto, store, phase, req, err, successCount, idx,
                   notFoundCount, backendErrors, resp, encOutcome, putOutcome,
                   delOutcome, contacted, fault, prev, nreq>>

\* _, err = backend.s3Client.Client.PutObject(...) with Body = encData
PutUpload(i) ==
    /\ phase = "Fanout" /\ req.method = "PUT"
    /\ pc[i] = "put" \/ (pc[i] = "start" /\ crypto[i].nil)
    /\ \E ok \in BOOLEAN :
          /\ CtxDone(BackendCtx) => ~ok
          /\ store' = IF ok THEN [store EXCEPT ![i][req.key] = encData[i]] ELSE store
          /\ err' = IF ok THEN Nil ELSE "AccessDenied"
          /\ putOutcome' = [putOutcome EXCEPT ![i] = IF ok THEN "ok" ELSE "fail"]
          /\ fault' = (fault \/ ~ok)
    /\ pc' = [pc EXCEPT ![i] = "putchk"]
    /\ UNCHANGED <<notObjVars, crypto, phase, req, encData, successCount, errCh, idx, notFoundCount,
                   backendErrors, resp, encOutcome, delOutcome, contacted, prev, nreq>>

\* if err != nil { log } else { mu.Lock(); successCount++; mu.Unlock() }; errCh <- err
PutCheck(i) ==
    /\ phase = "Fanout" /\ req.method = "PUT"
    /\ pc[i] = "putchk"
    /\ successCount' = IF err = Nil THEN successCount + 1 ELSE successCount
    /\ errCh' = Append(errCh, err)
    /\ pc' = [pc EXCEPT ![i] = "done"]
    /\ encData' = [encData EXCEPT ![i] = << >>]
    /\ UNCHANGED <<notObjVars, crypto, store, phase, req, err, idx, notFoundCount,
                   backendErrors, resp, encOutcome, putOutcome, delOutcome, contacted,
                   fault, prev, nreq>>

\* a handlePut that answers 201 Created
PutStatusCreated(count) == IF count > 0 THEN 201 ELSE 502

\* the status handlePut answers once wg.Wait() has returned
PutStatus(count) == IF count > 0 THEN 200 ELSE 502

\* wg.Wait(); close(errCh); the reduction over successCount
PutRespond ==
    /\ phase = "Fanout" /\ req.method = "PUT"
    /\ \A i \in Backends : pc[i] = "done"
    /\ resp' = [NoResp EXCEPT !.status = PutStatus(successCount),
                              !.error = IF successCount > 0 THEN "" ELSE "all backends failed"]
    /\ phase' = "Responded"
    /\ UNCHANGED <<notObjVars, crypto, store, req, err, pc, encData, successCount, errCh, idx,
                   notFoundCount, backendErrors, encOutcome, putOutcome, delOutcome,
                   contacted, fault, prev, nreq>>

handlePut ==
    \/ \E k \in Keys, body \in Bodies, readOk \in BOOLEAN : StartPut(k, body, readOk)
    \/ \E i \in Backends : PutEncrypt(i)
    \/ \E i \in Backends : PutEncCheck(i)
    \/ \E i \in Backends : PutUpload(i)
    \/ \E i \in Backends : PutCheck(i)
    \/ PutRespond

(***************************************************************************)
(* The backends.  A call either behaves as the physical bucket's content   *)
(* dictates or fails for a reason of its own (credentials, network, a      *)
(* missing bucket); the handlers only see the error.                       *)
(***************************************************************************)
\* the errors GetObject can return for an object
GetObjectErrs(blob) ==
    IF blob = Absent THEN {"NoSuchKey", "NoSuchBucket", "AccessDenied"} ELSE {"AccessDenied"}
\* the errors HeadObject can return for an object
HeadObjectErrs(blob) ==
    IF blob = Absent THEN {"NotFound", "AccessDenied"} ELSE {"AccessDenied"}
\* what DeleteObject can return for an object: S3 answers a delete of a missing
\* key with success, other stores with NoSuchKey
DeleteObjectResults(blob) ==
    IF blob = Absent THEN {Nil, "NoSuchKey", "AccessDenied"} ELSE {Nil, "AccessDenied"}
\* the error a backend gives for a missing key when nothing else is wrong
IsFault(e) == e \notin {Nil, "NoSuchKey", "NotFound"}

(***************************************************************************)
(* handleGet (proxy.go 451-524): the bindings in order, first success wins.*)
(***************************************************************************)
StartGet(k) ==
    /\ CanServe
    /\ Begin("GET", k, << >>)
    /\ fault' = FALSE
    /\ phase' = "Fanout"
    /\ pc' = [i \in Backends |-> "idle"]
    /\ resp' = NoResp

GetUnchanged == <<notObjVars, crypto, store, req, err, pc, encData, successCount, errCh,
                  encOutcome, putOutcome, delOutcome, prev, nreq>>

\* a handleGet that answers 502 on the first GetObject error (no failover)
GetErrorNoFallback(e) ==
    /\ phase = "Fanout" /\ req.method = "GET" /\ idx <= NumBackends
    /\ e \in GetObjectErrs(store[idx][req.key])
    /\ contacted' = Append(contacted, <<"GetObject", idx>>)
    /\ backendErrors' = Append(backendErrors, [binding |-> idx, stage |-> "get", err |-> e])
    /\ fault' = (fault \/ IsFault(e))
    /\ resp' = [NoResp EXCEPT !.status = 502, !.error = e]
    /\ phase' = "Responded"
    /\ UNCHANGED <<idx, notFoundCount>>
    /\ UNCHANGED GetUnchanged

\* an iteration whose GetObject returns an error
GetError(e) ==
    /\ phase = "Fanout" /\ req.method = "GET" /\ idx <= NumBackends
    /\ e \in GetObjectErrs(store[idx][req.key])
    /\ contacted' = Append(contacted, <<"GetObject", idx>>)
    /\ backendErrors' = Append(backendErrors, [binding |-> idx, stage |-> "get", err |-> e])
    /\ notFoundCount' = IF IsNotFound(e) THEN notFoundCount + 1 ELSE notFoundCount
    /\ idx' = idx + 1
    /\ fault' = (fault \/ IsFault(e))
    /\ UNCHANGED <<phase, resp>>
    /\ UNCHANGED GetUnchanged

\* a handleGet that counts a decrypt failure as not-found
GetFetchedCounting(readOk) ==
    /\ phase = "Fanout" /\ req.method = "GET" /\ idx <= NumBackends
    /\ store[idx][req.key] # Absent
    /\ contacted' = Append(contacted, <<"GetObject", idx>>)
    /\ fault' = (fault \/ ~readOk)
    /\ LET encBytes == store[idx][req.key]
           dec == IF crypto[idx].nil
                  THEN [ok |-> TRUE, data |-> encBytes]
                  ELSE Decrypt(crypto[idx].layers, encBytes)
       IN  IF ~readOk
           THEN /\ backendErrors' = Append(backendErrors,
                       [binding |-> idx, stage |-> "read", err |-> "ReadError"])
                /\ idx' = idx + 1
                /\ UNCHANGED <<phase, resp, notFoundCount>>
           ELSE IF ~dec.ok
           THEN /\ backendErrors' = Append(backendErrors,
                       [binding |-> idx, stage |-> "decrypt", err |-> "DecryptFailed"])
                /\ idx' = idx + 1
                /\ notFoundCount' = notFoundCount + 1
                /\ UNCHANGED <<phase, resp>>
           ELSE /\ resp' = [NoResp EXCEPT !.status = 200, !.body = dec.data,
                                          !.contentLength = Len(dec.data)]
                /\ phase' = "Responded"
                /\ UNCHANGED <<backendErrors, idx, notFoundCount>>
    /\ UNCHANGED GetUnchanged

\* an iteration whose GetObject succeeds: read the body, decrypt, answer
GetFetched(readOk) ==
    /\ phase = "Fanout" /\ req.method = "GET" /\ idx <= NumBackends
    /\ store[idx][req.key] # Absent
    /\ ~CtxDone(BackendCtx)
    /\ contacted' = Append(contacted, <<"GetObject", idx>>)
    /\ fault' = (fault \/ ~readOk)
    /\ LET encBytes == store[idx][req.key]
           dec == IF crypto[idx].nil
                  THEN [ok |-> TRUE, data |-> encBytes]
                  ELSE Decrypt(crypto[idx].layers, encBytes)
       IN  IF ~readOk
           THEN /\ backendErrors' = Append(backendErrors,
                       [binding |-> idx, stage |-> "read", err |-> "ReadError"])
                /\ idx' = idx + 1
                /\ UNCHANGED <<phase, resp>>
           ELSE IF ~dec.ok
           THEN /\ backendErrors' = Append(backendErrors,
                       [binding |-> idx, stage |-> "decrypt", err |-> "DecryptFailed"])
                /\ idx' = idx + 1
                /\ UNCHANGED <<phase, resp>>
           ELSE /\ resp' = [NoResp EXCEPT !.status = 200, !.body = dec.data,
                                          !.contentLength = Len(dec.data)]
                /\ phase' = "Responded"
                /\ UNCHANGED <<backendErrors, idx>>
    /\ UNCHANGED notFoundCount
    /\ UNCHANGED GetUnchanged

\* a reduction that answers 404 as soon as one binding reported not-found
FailStatusAny(count) == IF count > 0 THEN 404 ELSE 502

\* the status after every binding failed (handleGet and handleHead)
FailStatus(count) == IF count = NumBackends THEN 404 ELSE 502

\* the loop ran out of bindings
GetFail ==
    /\ phase = "Fanout" /\ req.method = "GET" /\ idx > NumBackends
    /\ resp' = [NoResp EXCEPT !.status = FailStatus(notFoundCount),
                              !.error = "Failed to get object from all backends"]
    /\ phase' = "Responded"
    /\ UNCHANGED <<idx, notFoundCount, backendErrors, contacted, fault>>
    /\ UNCHANGED GetUnchanged

handleGet ==
    \/ \E k \in Keys : StartGet(k)
    \/ \E e \in {"NoSuchKey", "NoSuchBucket", "AccessDenied"} : GetError(e)
    \/ \E readOk \in BOOLEAN : GetFetched(readOk)
    \/ GetFail

(***************************************************************************)
(* handleHead (proxy.go 526-646).                                          *)
(***************************************************************************)
StartHead(k) ==
    /\ CanServe
    /\ Begin("HEAD", k, << >>)
    /\ fault' = FALSE
    /\ phase' = "Fanout"
    /\ pc' = [i \in Backends |-> "idle"]
    /\ resp' = NoResp

\* an iteration whose HeadObject returns an error
HeadError(e) ==
    /\ phase = "Fanout" /\ req.method = "HEAD" /\ idx <= NumBackends
    /\ e \in HeadObjectErrs(store[idx][req.key])
    /\ contacted' = Append(contacted, <<"HeadObject", idx>>)
    /\ backendErrors' = Append(backendErrors, [binding |-> idx, stage |-> "head", err |-> e])
    /\ notFoundCount' = IF IsNotFound(e) THEN notFoundCount + 1 ELSE notFoundCount
    /\ idx' = idx + 1
    /\ fault' = (fault \/ IsFault(e))
    /\ UNCHANGED <<phase, resp>>
    /\ UNCHANGED GetUnchanged

\* a handleHead that reports the stored length without the size probe
HeadContentLengthStored(stored, hasCrypto, probe, dec) == stored

\* the Content-Length handleHead reports for a binding whose HeadObject succeeded.
\* stored is obj.ContentLength (-1: nil); probe is what the GetObject, the body
\* read and Decrypt made of the object: "geterr", "readerr", or the Decrypt result
HeadContentLength(stored, hasCrypto, probe, dec) ==
    IF hasCrypto /\ stored # -1 /\ probe = "ok" /\ dec.ok
    THEN Len(dec.data)
    ELSE stored

\* strings.HasSuffix
HasSuffix(str, suffix) ==
    /\ Len(str) >= Len(suffix)
    /\ SubSeq(str, Len(str) - Len(suffix) + 1, Len(str)) = suffix

\* the if / else-if chain over the key's suffix (proxy.go 583-591)
SuffixContentType(objectKey) ==
    IF HasSuffix(objectKey, ".txt") THEN "text/plain"
    ELSE IF HasSuffix(objectKey, ".json") THEN "application/json"
    ELSE IF HasSuffix(objectKey, ".xml") THEN "application/xml"
    ELSE IF HasSuffix(objectKey, ".html") THEN "text/html"
    ELSE "application/octet-stream"

\* actualContentType: the suffix is looked at only inside the size probe, when
\* Decrypt succeeded and len(decData) > 0
ActualContentType(objectKey, stored, hasCrypto, probe, dec) ==
    IF hasCrypto /\ stored # -1 /\ probe = "ok" /\ dec.ok /\ Len(dec.data) > 0
    THEN SuffixContentType(objectKey)
    ELSE "application/octet-stream"

\* the Content-Type header: obj.ContentType if it is neither nil nor empty
HeadContentType(objContentType, actualContentType) ==
    IF objContentType # Nil /\ objContentType # ""
    THEN objContentType
    ELSE actualContentType

\* the values HeadObject reports as obj.ContentType
ObjContentTypes == {Nil, "", "image/png"}

\* an iteration whose HeadObject succeeds: for a binding with a pipeline the object
\* is fetched and decrypted to learn its size
HeadFound(clPresent, probe, objContentType) ==
    /\ phase = "Fanout" /\ req.method = "HEAD" /\ idx <= NumBackends
    /\ store[idx][req.key] # Absent
    /\ LET blob     == store[idx][req.key]
           stored   == IF clPresent THEN Len(blob) ELSE -1
           probing  == ~crypto[idx].nil /\ stored # -1
           dec      == IF crypto[idx].nil
                       THEN [ok |-> FALSE, data |-> << >>]
                       ELSE Decrypt(crypto[idx].layers, blob)
       IN  /\ probing \/ probe = "ok"
           /\ contacted' = IF probing
                           THEN contacted \o << <<"HeadObject", idx>>, <<"GetObject", idx, probe>> >>
                           ELSE Append(contacted, <<"HeadObject", idx>>)
           /\ fault' = (fault \/ ~clPresent \/ probe # "ok")
           /\ resp' = [NoResp EXCEPT !.status = 200,
                          !.contentLength =
                              HeadContentLength(stored, ~crypto[idx].nil, probe, dec),
                          !.contentType =
                              HeadContentType(objContentType,
                                  ActualContentType(req.key, stored, ~crypto[idx].nil,
                                                    probe, dec))]
    /\ phase' = "Responded"
    /\ UNCHANGED <<idx, notFoundCount, backendErrors>>
    /\ UNCHANGED GetUnchanged

HeadFail ==
    /\ phase = "Fanout" /\ req.method = "HEAD" /\ idx > NumBackends
    /\ resp' = [NoResp EXCEPT !.status = FailStatus(notFoundCount),
                              !.error = "Failed to head object from all backends"]
    /\ phase' = "Responded"
    /\ UNCHANGED <<idx, notFoundCount, backendErrors, contacted, fault>>
    /\ UNCHANGED GetUnchanged

handleHead ==
    \/ \E k \in Keys : StartHead(k)
    \/ \E e \in {"NotFound", "AccessDenied"} : HeadError(e)
    \/ \E clPresent \in BOOLEAN, probe \in {"ok", "geterr", "readerr"},
          objContentType \in ObjContentTypes :
          HeadFound(clPresent, probe, objContentType)
    \/ HeadFail

(***************************************************************************)
(* handleDelete (proxy.go 648-703).                                        *)
(***************************************************************************)
StartDelete(k) ==
    /\ CanServe
    /\ Begin("DELETE", k, << >>)
    /\ fault' = FALSE
    /\ phase' = "Fanout"
    /\ pc' = [i \in Backends |-> "start"]
    /\ resp' = NoResp

\* a goroutine that treats NoSuchKey like any other error
DeleteCountsNilOnly(e) == e = Nil

\* whether the goroutine counts the outcome of DeleteObject as a success
DeleteCounts(e) == e = Nil \/ IsNoSuchKey(e)

\* a goroutine whose DeleteObject reports success and leaves the object in place
DeleteTaskKeeps(i, e) ==
    /\ phase = "Fanout" /\ req.method = "DELETE"
    /\ pc[i] = "start"
    /\ e \in DeleteObjectResults(store[i][req.key])
    /\ store' = store
    /\ delOutcome' = [delOutcome EXCEPT ![i] = e]
    /\ fault' = (fault \/ IsFault(e))
    /\ IF DeleteCounts(e)
       THEN /\ successCount' = successCount + 1
            /\ errCh' = Append(errCh, Nil)
       ELSE /\ successCount' = successCount
            /\ errCh' = Append(errCh, e)
    /\ pc' = [pc EXCEPT ![i] = "done"]
    /\ UNCHANGED <<notObjVars, crypto, phase, req, err, encData, idx, notFoundCount, backendErrors,
                   resp, encOutcome, putOutcome, contacted, prev, nreq>>

\* the goroutine of binding i: DeleteObject, then the outcome on errCh
DeleteTask(i, e) ==
    /\ phase = "Fanout" /\ req.method = "DELETE"
    /\ pc[i] = "start"
    /\ e \in DeleteObjectResults(store[i][req.key])
    /\ CtxDone(BackendCtx) => e # Nil
    /\ store' = IF e = Nil THEN [store EXCEPT ![i][req.key] = Absent] ELSE store
    /\ delOutcome' = [delOutcome EXCEPT ![i] = e]
    /\ fault' = (fault \/ IsFault(e))
    /\ IF DeleteCounts(e)
       THEN /\ successCount' = successCount + 1
            /\ errCh' = Append(errCh, Nil)
       ELSE /\ successCount' = successCount
            /\ errCh' = Append(errCh, e)
    /\ pc' = [pc EXCEPT ![i] = "done"]
    /\ UNCHANGED <<notObjVars, crypto, phase, req, err, encData, idx, notFoundCount, backendErrors,
                   resp, encOutcome, putOutcome, contacted, prev, nreq>>

\* for e := range errCh { if e != nil { realErrors = append(realErrors, e) } }
RealErrors(ch) == SelectSeq(ch, LAMBDA e : e # Nil)

\* a reduction that fails the DELETE as soon as one binding reported a real error
DeleteStatusNoErrors(realErrors, count) == IF Len(realErrors) = 0 THEN 204 ELSE 502

\* the reduction of handleDelete
DeleteStatus(realErrors, count) == IF Len(realErrors) = 0 \/ count > 0 THEN 204 ELSE 502

DeleteRespond ==
    /\ phase = "Fanout" /\ req.method = "DELETE"
    /\ \A i \in Backends : pc[i] = "done"
    /\ LET realErrors == RealErrors(errCh)
           status == DeleteStatus(realErrors, successCount)
       IN  resp' = [NoResp EXCEPT !.status = status,
                                  !.error = IF status = 204 THEN "" ELSE realErrors[1]]
    /\ phase' = "Responded"
    /\ UNCHANGED <<notObjVars, crypto, store, req, err, pc, encData, successCount, errCh, idx,
                   notFoundCount, backendErrors, encOutcome, putOutcome, delOutcome,
                   contacted, fault, prev, nreq>>

handleDelete ==
    \/ \E k \in Keys : StartDelete(k)
    \/ \E i \in Backends, e \in {Nil, "NoSuchKey", "AccessDenied"} : DeleteTask(i, e)
    \/ DeleteRespond

Next ==
    \/ handlePut
    \/ handleGet
    \/ handleHead
    \/ handleDelete

Spec == Init /\ [][Next]_vars

(***************************************************************************)
(* The client goes away while its request is being handled: net/http       *)
(* cancels r.Context() and the handler keeps running.                      *)
(***************************************************************************)
Cancel ==
    /\ phase = "Fanout"
    /\ ~req.cancelled
    /\ req' = [req EXCEPT !.cancelled = TRUE]
    /\ UNCHANGED <<notObjVars, crypto, store, phase, err, pc, encData, successCount, errCh,
                   idx, notFoundCount, backendErrors, resp, encOutcome, putOutcome,
                   delOutcome, contacted, fault, prev, nreq>>

Cancellable ==
    \/ handlePut
    \/ handleGet
    \/ handleDelete
    \/ Cancel

SpecCancel == Init /\ [][Cancellable]_vars

(***************************************************************************)
(* handleHead alone, on keys with and without the suffixes it looks for    *)
(* and on objects of any length, the empty one included.                   *)
(***************************************************************************)
HeadKeys == {"k", "hello.txt", "data.json", "feed.xml", "index.html"}

\* what a physical bucket can hold at the key: as InitialBlobs, or an empty
\* object stored through the binding
HeadBlobs(c) ==
    InitialBlobs(c) \cup {IF c.nil THEN << >> ELSE Encrypt(c.layers, 42, 0, << >>).data}

InitHead ==
    /\ RegIdle
    /\ ConcIdle
    /\ crypto \in [Backends -> {NoCrypto, Pipeline}]
    /\ \E k \in HeadKeys :
          store \in [Backends -> [{k} -> HeadBlobs(NoCrypto) \cup HeadBlobs(Pipeline)]]
    /\ \A i \in Backends : \A k \in DOMAIN store[i] : store[i][k] \in HeadBlobs(crypto[i])
    /\ InitRequest
    /\ HttpIdle
    /\ CryptIdle
    /\ FsIdle

HeadRequests ==
    \/ \E k \in HeadKeys : k \in DOMAIN store[1] /\ StartHead(k)
    \/ \E e \in {"NotFound", "AccessDenied"} : HeadError(e)
    \/ \E clPresent \in BOOLEAN, probe \in {"ok", "geterr", "readerr"},
          objContentType \in ObjContentTypes :
          HeadFound(clPresent, probe, objContentType)
    \/ HeadFail

SpecHead == InitHead /\ [][HeadRequests]_vars

(***************************************************************************)
(* Proxy.ServeHTTP and AuthenticateRequest.  A string is the sequence of   *)
(* its words and separators, so that strings.Split, strings.TrimPrefix and *)
(* strings.HasPrefix are computed as the library computes them.            *)
(***************************************************************************)
\* longest Authorization header and longest URL path, in words and separators
MaxHeaderLen == 6
MaxPathLen == 4

\* strings.HasPrefix
HasPrefix(str, prefix) ==
    Len(str) >= Len(prefix) /\ SubSeq(str, 1, Len(prefix)) = prefix

\* strings.TrimPrefix
TrimPrefix(str, prefix) ==
    IF HasPrefix(str, prefix) THEN SubSeq(str, Len(prefix) + 1, Len(str)) ELSE str

\* strings.Index for a one-separator needle; 0 when the separator is absent
Index(str, sep) ==
    IF \E i \in 1..Len(str) : str[i] = sep
    THEN CHOOSE i \in 1..Len(str) : str[i] = sep /\ \A j \in 1..(i - 1) : str[j] # sep
    ELSE 0

\* strings.Split(str, sep)
RECURSIVE Split(_, _)
Split(str, sep) ==
    LET i == Index(str, sep)
    IN  IF i = 0
        THEN << str >>
        ELSE << SubSeq(str, 1, i - 1) >> \o Split(SubSeq(str, i + 1, Len(str)), sep)

\* strings.SplitN(str, sep, 2)
SplitN2(str, sep) ==
    LET i == Index(str, sep)
    IN  IF i = 0
        THEN << str >>
        ELSE << SubSeq(str, 1, i - 1), SubSeq(str, i + 1, Len(str)) >>

\* the configuration api.New reads: auth.header_format, auth.users, s3_buckets
headerFormat == << "AWS4-HMAC-SHA256" >>
auth == { << "K1" >> }
buckets == { << "vault" >> }

\* AuthenticateRequest: the error it returns for an Authorization header
\* (<< >> is the absent header), Nil when the request is authenticated
AuthenticateRequest(authHeader) ==
    IF authHeader = << >> THEN "missing Authorization header"
    ELSE IF headerFormat = << >> THEN "no authorization header format configured"
    ELSE LET parts == Split(authHeader, " ")
         IN  IF Len(parts) < 2 \/ parts[1] # headerFormat
             THEN "invalid Authorization header format"
             ELSE LET credentialParts == Split(parts[2], "=")
                  IN  IF Len(credentialParts) < 2
                         \/ ~HasPrefix(credentialParts[1], << "Credential" >>)
                      THEN "invalid credential format"
                      ELSE LET credential == Split(credentialParts[2], "/")
                           IN  IF Len(credential) < 1
                               THEN "invalid credential structure"
                               ELSE IF credential[1] \notin auth
                                    THEN "invalid access key"
                                    ELSE Nil

\* the requests the proxy is sent
Methods == {"GET", "PUT", "POST", "HEAD", "DELETE", "OPTIONS"}
PathWords == {"/", "vault", "hello", "healthz"}
Paths == {p \in UNION {[1..n -> PathWords] : n \in 1..MaxPathLen} : p[1] = "/"}
HeaderWords == {" ", "=", "/", "AWS4-HMAC-SHA256", "Credential", "K1", "KX"}
Headers == UNION {[1..n -> HeaderWords] : n \in 0..MaxHeaderLen}
\* the headers of the guide's tests: a configured key, an unknown key, another scheme
SignedHeader(key) ==
    << "AWS4-HMAC-SHA256", " ", "Credential", "=", key, "/", "20250516", "/", "us-east-1" >>
BearerHeader == << "Bearer", " ", "token" >>
TestHeaders == {<< >>, SignedHeader("K1"), SignedHeader("KX"), BearerHeader}
Requests ==
    {[method |-> m, path |-> p, header |-> h] : m \in Methods, p \in Paths, h \in TestHeaders}
    \cup {[method |-> "GET", path |-> << "/", "vault", "/", "hello" >>, header |-> h] :
             h \in Headers}

HealthzPath == << "/", "healthz" >>

\* if r.Method == "GET" && r.URL.Path == "/healthz" { 200 "ok"; return }
Healthz ==
    /\ hpc = "received"
    /\ r.method = "GET" /\ r.path = HealthzPath
    /\ written' = Append(written, [status |-> 200, body |-> "ok"])
    /\ hpc' = "done"
    /\ UNCHANGED <<r, authErr, strBucket, strKey, routed, calls>>
    /\ UNCHANGED notHttpVars

\* a ServeHTTP that serves a request whatever AuthenticateRequest returned
AuthenticateOpen ==
    /\ hpc = "received"
    /\ ~(r.method = "GET" /\ r.path = HealthzPath)
    /\ authErr' = AuthenticateRequest(r.header)
    /\ written' = written
    /\ hpc' = "authenticated"
    /\ UNCHANGED <<r, strBucket, strKey, routed, calls>>
    /\ UNCHANGED notHttpVars

\* if err := AuthenticateRequest(p, r); err != nil { http.Error(w, ..., 401); return }
Authenticate ==
    /\ hpc = "received"
    /\ ~(r.method = "GET" /\ r.path = HealthzPath)
    /\ authErr' = AuthenticateRequest(r.header)
    /\ IF authErr' # Nil
       THEN /\ written' = Append(written, [status |-> 401, body |-> authErr'])
            /\ hpc' = "done"
       ELSE /\ written' = written
            /\ hpc' = "authenticated"
    /\ UNCHANGED <<r, strBucket, strKey, routed, calls>>
    /\ UNCHANGED notHttpVars

\* path := strings.TrimPrefix(r.URL.Path, "/"); parts := strings.SplitN(path, "/", 2)
ParsePath ==
    /\ hpc = "authenticated"
    /\ LET path == TrimPrefix(r.path, << "/" >>)
           parts == SplitN2(path, "/")
       IN  /\ strBucket' = parts[1]
           /\ strKey' = IF Len(parts) >= 2 THEN parts[2] ELSE << >>
    /\ hpc' = "parsed"
    /\ UNCHANGED <<r, authErr, routed, calls, written>>
    /\ UNCHANGED notHttpVars

\* a dispatcher that gives every request for a configured bucket to an object handler
HandlerAnyKey(bucket, key, method) ==
    IF bucket \in buckets
    THEN CASE method \in {"PUT", "POST"} -> "handlePut"
           [] method = "GET"             -> "handleGet"
           [] method = "HEAD"            -> "handleHead"
           [] method = "DELETE"          -> "handleDelete"
           [] OTHER                      -> "handleProxy"
    ELSE "handleProxy"

\* the handler ServeHTTP calls for a bucket name, a key and a method
Handler(bucket, key, method) ==
    IF bucket \in buckets /\ key # << >>
    THEN CASE method \in {"PUT", "POST"} -> "handlePut"
           [] method = "GET"             -> "handleGet"
           [] method = "HEAD"            -> "handleHead"
           [] method = "DELETE"          -> "handleDelete"
           [] OTHER                      -> "handleProxy"
    ELSE "handleProxy"

\* the backend call a handler starts with
BackendCall(handler) ==
    CASE handler = "handlePut"    -> "PutObject"
      [] handler = "handleGet"    -> "GetObject"
      [] handler = "handleHead"   -> "HeadObject"
      [] handler = "handleDelete" -> "DeleteObject"
      [] OTHER                    -> "Forward"

\* the call of the handler: an object handler goes to its backends, handleProxy
\* has its own steps before it forwards
Dispatch ==
    /\ hpc = "parsed"
    /\ LET handler == Handler(strBucket, strKey, r.method)
       IN  /\ routed' = Append(routed, handler)
           /\ calls' = IF handler = "handleProxy"
                        THEN calls
                        ELSE Append(calls, BackendCall(handler))
           /\ hpc' = IF handler = "handleProxy" THEN "proxying" ELSE "done"
    /\ UNCHANGED <<r, authErr, strBucket, strKey, written>>
    /\ UNCHANGED notHttpVars

\* the status handleProxy answers with: 500 when Credentials.Retrieve or SignHTTP
\* fails, 502 when http.DefaultClient.Do fails, else the upstream's status
ProxyStatus(credErr, signErr, doErr, upstream) ==
    IF credErr # Nil THEN 500
    ELSE IF signErr # Nil THEN 500
    ELSE IF doErr # Nil THEN 502
    ELSE upstream

\* handleProxy (proxy.go 705-758) for a proxy with a configured bucket: the
\* request is repackaged for the first binding, signed with its credentials and
\* executed; the upstream's answer is copied to w
HandleProxy(credErr, signErr, doErr, upstream) ==
    /\ hpc = "proxying"
    /\ credErr # Nil => signErr = Nil
    /\ (credErr # Nil \/ signErr # Nil) => doErr = Nil
    /\ (credErr # Nil \/ signErr # Nil \/ doErr # Nil) => upstream = 200
    /\ calls' = IF credErr = Nil /\ signErr = Nil
                 THEN Append(calls, BackendCall("handleProxy"))
                 ELSE calls
    /\ resp' = [NoResp EXCEPT
                    !.status = ProxyStatus(credErr, signErr, doErr, upstream),
                    !.error = IF credErr # Nil THEN credErr
                              ELSE IF signErr # Nil THEN signErr
                              ELSE IF doErr # Nil THEN doErr
                              ELSE ""]
    /\ hpc' = "done"
    /\ UNCHANGED <<r, authErr, strBucket, strKey, routed, written>>
    /\ UNCHANGED <<cryptVars, fsVars, regVars, concVars>>
    /\ UNCHANGED <<crypto, store, phase, req, err, pc, encData, successCount, errCh, idx,
                   notFoundCount, backendErrors, encOutcome, putOutcome, delOutcome,
                   contacted, fault, prev, nreq>>

ServeHTTP ==
    \/ Healthz
    \/ Authenticate
    \/ ParsePath
    \/ Dispatch
    \/ \E credErr \in {Nil, "NoCredentials"}, signErr \in {Nil, "SignFailed"},
          doErr \in {Nil, "ConnectionRefused"}, upstream \in {200, 404} :
          HandleProxy(credErr, signErr, doErr, upstream)

\* the proxy as api.New returns it, its bindings without pipeline and holding
\* nothing, and a request that has just arrived
InitDispatch ==
    /\ RegIdle
    /\ ConcIdle
    /\ InitObjects
    /\ \A i \in Backends : crypto[i] = NoCrypto
    /\ \A i \in Backends, k \in Keys : store[i][k] = Absent
    /\ r \in Requests
    /\ hpc = "received"
    /\ authErr = Nil
    /\ strBucket = << >>
    /\ strKey = << >>
    /\ routed = << >>
    /\ calls = << >>
    /\ written = << >>
    /\ CryptIdle
    /\ FsIdle

SpecDispatch == InitDispatch /\ [][ServeHTTP]_vars

(***************************************************************************)
(* One object-level request from its arrival to its response: ServeHTTP    *)
(* up to the call of the handler, then the handler.  Every goroutine that  *)
(* can take a step eventually takes one, and every backend call returns.   *)
(***************************************************************************)
ObjectMethods == {"GET", "PUT", "POST", "HEAD", "DELETE"}
ObjectRequests ==
    {[method |-> m, path |-> << "/", "vault", "/", "hello" >>, header |-> h] :
        m \in ObjectMethods, h \in {SignedHeader("K1"), SignedHeader("KX")}}

InitServe ==
    /\ RegIdle
    /\ ConcIdle
    /\ InitObjects
    /\ r \in ObjectRequests
    /\ hpc = "received"
    /\ authErr = Nil
    /\ strBucket = << >>
    /\ strKey = << >>
    /\ routed = << >>
    /\ calls = << >>
    /\ written = << >>
    /\ CryptIdle
    /\ FsIdle

\* p.handlePut(bucket, strKey, w, r) and the like: the handler ServeHTTP called runs
\* once, from its first statement to the response
RunHandler ==
    /\ hpc = "done" /\ routed # << >>
    /\ phase # "Responded"
    /\ CASE routed[1] = "handlePut"    -> handlePut
         [] routed[1] = "handleGet"    -> handleGet
         [] routed[1] = "handleHead"   -> handleHead
         [] routed[1] = "handleDelete" -> handleDelete
         [] OTHER                      -> FALSE

Serve ==
    \/ Authenticate
    \/ ParsePath
    \/ Dispatch
    \/ RunHandler

\* where the goroutines of the request are: every step of Serve changes it
progress == <<hpc, phase, pc, idx>>

\* the request has no response yet (nothing written by ServeHTTP, the handler not
\* returned) and its goroutines move on
Running ==
    /\ written = << >> /\ phase # "Responded"
    /\ hpc' \in {"received", "authenticated", "parsed", "done"}
    /\ phase' \in {"Idle", "Fanout", "Responded"}
    /\ pc' \in [Backends -> {"idle", "start", "encchk", "put", "putchk", "done"}]
    /\ idx' \in 1..(NumBackends + 1)

\* The Go scheduler runs every goroutine that can run, and every backend call
\* returns: as long as the request has no response, a step is taken.  A state
\* without response always has a step of Serve to take, and every step of Serve
\* changes progress, so this is weak fairness of Serve.
SpecServe == InitServe /\ [][Serve]_vars /\ WF_progress(Running)

(***************************************************************************)
(* MultiLayerCrypt exercised on its own (internal/crypto/layers.go): bytes *)
(* are encrypted by one MultiLayerCrypt and decrypted by one, the same or  *)
(* another (a binding whose pipeline was reconfigured).                    *)
(***************************************************************************)
\* longest pipeline and longest plaintext
MaxLayers == 2
MaxDataLen == 2

\* the layers NewCryptFromConfig can build
Layers == {[alg |-> "chacha20poly1305", key |-> 3],
           [alg |-> "aes", key |-> 5],
           [alg |-> "aes", key |-> 9]}
Pipelines == UNION {[1..n -> Layers] : n \in 0..MaxLayers}
ByteSeqs == UNION {[1..n -> {0, 7, 255}] : n \in 0..MaxDataLen}

InitCrypt ==
    /\ RegIdle
    /\ ConcIdle
    /\ InitObjects
    /\ \A i \in Backends : crypto[i] = NoCrypto
    /\ \A i \in Backends, k \in Keys : store[i][k] = Absent
    /\ HttpIdle
    /\ FsIdle
    /\ layers \in Pipelines
    /\ writer \in Pipelines
    /\ data \in ByteSeqs
    /\ encrypted = [ok |-> TRUE, data |-> << >>]
    /\ tampered = FALSE
    /\ decrypted = [ok |-> TRUE, data |-> << >>]
    /\ cpc = "plain"

\* writer.Encrypt(data)
CryptEncrypt(seed, failAt) ==
    /\ cpc = "plain"
    /\ failAt \in 0..Len(writer)
    /\ encrypted' = Encrypt(writer, seed, failAt, data)
    /\ cpc' = "encrypted"
    /\ UNCHANGED <<layers, writer, data, tampered, decrypted>>
    /\ UNCHANGED notCryptVars

\* the stored bytes change behind the pipeline's back: the last byte is altered
CryptTamper ==
    /\ cpc = "encrypted"
    /\ encrypted.ok /\ ~tampered /\ Len(encrypted.data) > 0
    /\ LET n == Len(encrypted.data)
       IN  encrypted' = [encrypted EXCEPT !.data[n] = (@ + 1) % 256]
    /\ tampered' = TRUE
    /\ UNCHANGED <<layers, writer, data, decrypted, cpc>>
    /\ UNCHANGED notCryptVars

\* layers.Decrypt(bytes Encrypt returned)
CryptDecrypt ==
    /\ cpc = "encrypted"
    /\ encrypted.ok
    /\ decrypted' = Decrypt(layers, encrypted.data)
    /\ cpc' = "decrypted"
    /\ UNCHANGED <<layers, writer, data, encrypted, tampered>>
    /\ UNCHANGED notCryptVars

MultiLayerCrypt ==
    \/ \E seed \in NonceSeeds, failAt \in 0..MaxLayers : CryptEncrypt(seed, failAt)
    \/ CryptTamper
    \/ CryptDecrypt

SpecCrypt == InitCrypt /\ [][MultiLayerCrypt]_vars

(***************************************************************************)
(* The filesystem adapter (internal/fusefs/s3fs.go).  A key is the         *)
(* sequence of its characters; the callbacks of one handle run under       *)
(* h.mu, one at a time.                                                    *)
(***************************************************************************)
\* largest offset + length of a Write and largest Read window; callbacks per run
MaxFileLen == 3
MaxOps == 4

\* the keys of the mounted bucket: a file, a directory marker, a file in the directory
FileKey == << "h" >>
DirName == << "d" >>
DirKey == << "d", "/" >>
ChildKey == << "d", "/", "f" >>
FsKeys == {FileKey, DirKey, ChildKey}
FileKeys == {FileKey, ChildKey}

\* byte order of the characters, the order ListObjectsV2 returns keys in
Rank(c) == CASE c = "/" -> 47 [] c = "d" -> 100 [] c = "f" -> 102 [] OTHER -> 104

RECURSIVE KeyLess(_, _)
KeyLess(a, b) ==
    IF a = << >> THEN b # << >>
    ELSE IF b = << >> THEN FALSE
    ELSE IF Head(a) = Head(b) THEN KeyLess(Tail(a), Tail(b))
    ELSE Rank(Head(a)) < Rank(Head(b))

RECURSIVE SortedKeys(_)
SortedKeys(S) ==
    IF S = {} THEN << >>
    ELSE LET first == CHOOSE k \in S : \A other \in S \ {k} : KeyLess(k, other)
         IN  << first >> \o SortedKeys(S \ {first})

\* ListObjectsV2(Prefix, MaxKeys).Contents: the first maxKeys keys under the prefix
ListObjectsV2(bucket, prefix, maxKeys) ==
    LET all == SortedKeys({k \in DOMAIN bucket : bucket[k] # Absent /\ HasPrefix(k, prefix)})
    IN  SubSeq(all, 1, IF Len(all) < maxKeys THEN Len(all) ELSE maxKeys)

\* the errors whose dynamic type is one of the cases of mapS3Error's type switch
\* (an error the SDK hands back unwrapped), by the name of the type
TypedErrors == {"*types.NoSuchBucket", "*types.NoSuchKey", "*types.BucketAlreadyExists",
                "*types.BucketAlreadyOwnedByYou"}

\* mapS3Error: the type switch, then strings.Contains on err.Error() in the order
\* of the source
mapS3Error(e) ==
    CASE e = Nil -> Nil
      [] e = "*types.NoSuchBucket" -> "ENOENT"
      [] e = "*types.NoSuchKey" -> "ENOENT"
      [] e = "*types.BucketAlreadyExists" -> "EEXIST"
      [] e = "*types.BucketAlreadyOwnedByYou" -> "EEXIST"
      [] OTHER ->
           LET errStr == ErrText(e)
           IN  IF Contains(errStr, "NoSuchBucket") THEN "ENOENT"
               ELSE IF Contains(errStr, "NoSuchKey") THEN "ENOENT"
               ELSE IF Contains(errStr, "AccessDenied") THEN "EACCES"
               ELSE IF Contains(errStr, "Forbidden") THEN "EACCES"
               ELSE IF Contains(errStr, "InvalidAccessKeyId") THEN "EACCES"
               ELSE IF Contains(errStr, "SignatureDoesNotMatch") THEN "EACCES"
               ELSE IF Contains(errStr, "BucketAlreadyExists") THEN "EEXIST"
               ELSE IF Contains(errStr, "ObjectNotInActiveTierError") THEN "EACCES"
               ELSE "EIO"

\* mapCryptoError
mapCryptoError(e) == IF e = Nil THEN Nil ELSE "EIO"

\* the object written as "abcde" and closed in the past, and what the bucket holds
\* at its key for it
StoredBody == << 97, 98, 99, 100, 101 >>
StoredBlob(c) == IF c.nil THEN StoredBody ELSE Encrypt(c.layers, 17, 0, StoredBody).data

\* NewS3FS on a bucket that holds any of the three keys
InitFS ==
    /\ RegIdle
    /\ ConcIdle
    /\ InitObjects
    /\ \A i \in Backends : crypto[i] = NoCrypto
    /\ \A i \in Backends, k \in Keys : store[i][k] = Absent
    /\ HttpIdle
    /\ CryptIdle
    /\ fsCrypto \in {NoCrypto, Pipeline}
    /\ objects \in [FsKeys -> {Absent, << >>, StoredBlob(NoCrypto), StoredBlob(Pipeline)}]
    /\ objects[DirKey] \in {Absent, << >>}
    /\ \A k \in FileKeys : objects[k] \in {Absent, StoredBlob(fsCrypto)}
    /\ metadataCache = [k \in FsKeys |-> NoEntry]
    /\ handle = NoHandle
    /\ now = 0
    /\ ret = NoRet
    /\ nops = 0

\* a callback arrives: the clock has moved on
Callback ==
    /\ nops < MaxOps
    /\ nops' = nops + 1
    /\ now' = now + 1

\* the cache entry of a key (NoEntry: none)
EntryAt(key) == IF key \in DOMAIN metadataCache THEN metadataCache[key] ELSE NoEntry

Returned(op, key, errno, backendCalls) ==
    [NoRet EXCEPT !.op = op, !.key = key, !.errno = errno, !.calls = backendCalls,
                  !.before = handle, !.at = now', !.entry = EntryAt(key)]

\* a cache that keeps the entry
invalidateCacheNot(cache, key) == cache

\* invalidateCache: delete(node.fs.metadataCache, node.key)
invalidateCache(cache, key) == [cache EXCEPT ![key] = NoEntry]

\* a callback that returns mapS3Error(e) for what its backend call returned
ReturnedErr(op, key, e, backendCalls) ==
    [Returned(op, key, mapS3Error(e), backendCalls) EXCEPT !.err = e]

\* S3Node.Open on a file node
NodeOpen(key, write, headErr) ==
    /\ Callback
    /\ ~handle.open
    /\ IF write
       THEN /\ headErr = Nil
            /\ handle' = [key |-> key, writable |-> TRUE, data |-> NilBuffer,
                          dirty |-> FALSE, open |-> TRUE]
            /\ ret' = Returned("Open", key, Nil, << >>)
       ELSE /\ headErr \in {Nil} \cup HeadObjectErrs(objects[key])
            /\ objects[key] = Absent => headErr # Nil
            /\ handle' = IF headErr = Nil
                         THEN [key |-> key, writable |-> FALSE, data |-> NilBuffer,
                               dirty |-> FALSE, open |-> TRUE]
                         ELSE handle
            /\ ret' = ReturnedErr("Open", key, headErr, << "HeadObject" >>)
    /\ UNCHANGED <<fsCrypto, objects, metadataCache>>
    /\ UNCHANGED notFsVars

\* a Create whose handle starts clean
NodeCreateClean(key) ==
    /\ Callback
    /\ ~handle.open
    /\ handle' = [key |-> key, writable |-> TRUE, data |-> << >>, dirty |-> FALSE,
                  open |-> TRUE]
    /\ ret' = Returned("Create", key, Nil, << >>)
    /\ UNCHANGED <<fsCrypto, objects, metadataCache>>
    /\ UNCHANGED notFsVars

\* S3Node.Create
NodeCreate(key) ==
    /\ Callback
    /\ ~handle.open
    /\ handle' = [key |-> key, writable |-> TRUE, data |-> << >>, dirty |-> TRUE,
                  open |-> TRUE]
    /\ ret' = Returned("Create", key, Nil, << >>)
    /\ UNCHANGED <<fsCrypto, objects, metadataCache>>
    /\ UNCHANGED notFsVars

\* h.data.Len() / h.data.Bytes() once Write has initialised a nil buffer
BufferBytes(buf) == IF buf = NilBuffer THEN << >> ELSE buf

\* a Write that also pads below the end of the buffer
WriteBufferAnywhere(buf, offset, bytes) ==
    LET cur == BufferBytes(buf)
    IN  [errno |-> Nil,
         data |-> cur \o [i \in 1..(IF offset > Len(cur) THEN offset - Len(cur) ELSE 0) |-> 0]
                      \o bytes,
         dirty |-> TRUE]

\* the buffer arithmetic of S3FileHandle.Write: what it returns and what it
\* leaves in h.data and h.dirty
WriteBuffer(buf, offset, bytes) ==
    LET cur == BufferBytes(buf)
        currentSize == Len(cur)
    IN  IF offset # currentSize /\ offset < currentSize
        THEN [errno |-> "ESPIPE", data |-> cur, dirty |-> FALSE]
        ELSE [errno |-> Nil,
              data |-> cur \o [i \in 1..(offset - currentSize) |-> 0] \o bytes,
              dirty |-> TRUE]

\* S3FileHandle.Write
HandleWrite(offset, bytes) ==
    /\ Callback
    /\ handle.open
    /\ offset + Len(bytes) <= MaxFileLen
    /\ IF ~handle.writable
       THEN /\ handle' = handle
            /\ ret' = [Returned("Write", handle.key, "EBADF", << >>)
                          EXCEPT !.offset = offset, !.bytes = bytes]
       ELSE LET w == WriteBuffer(handle.data, offset, bytes)
            IN  /\ handle' = [handle EXCEPT !.data = w.data,
                                            !.dirty = IF w.errno = Nil THEN w.dirty ELSE @]
                /\ ret' = [Returned("Write", handle.key, w.errno, << >>)
                              EXCEPT !.offset = offset, !.bytes = bytes]
    /\ UNCHANGED <<fsCrypto, objects, metadataCache>>
    /\ UNCHANGED notFsVars

\* the window [offset, offset+size) of data, as Read slices it
Window(bytes, offset, size) ==
    IF offset >= Len(bytes) THEN << >>
    ELSE SubSeq(bytes, offset + 1,
                IF offset + size > Len(bytes) THEN Len(bytes) ELSE offset + size)

\* GetObject with Range: bytes=first-last, on an object that is there
RangeOf(blob, first, last) ==
    IF first >= Len(blob)
    THEN [err |-> "InvalidRange", data |-> << >>]
    ELSE [err |-> Nil,
          data |-> SubSeq(blob, first + 1, IF last + 1 > Len(blob) THEN Len(blob) ELSE last + 1)]

\* a Read that goes to the backend whatever the handle's buffer holds
ReadFromBufferNever(h) == FALSE

\* S3FileHandle.Read: if h.dirty && h.data != nil, the answer comes from the buffer
ReadFromBuffer(h) == h.dirty /\ h.data # NilBuffer

\* S3FileHandle.Read
HandleRead(offset, size, getErr) ==
    /\ Callback
    /\ handle.open
    /\ offset + size <= MaxFileLen
    /\ IF ReadFromBuffer(handle)
       THEN /\ getErr = Nil
            /\ ret' = [Returned("Read", handle.key, Nil, << >>)
                          EXCEPT !.offset = offset, !.size = size,
                                 !.data = Window(handle.data, offset, size)]
       ELSE LET blob == objects[handle.key]
                ranged == fsCrypto.nil /\ (offset > 0 \/ size > 0)
                got == IF getErr # Nil THEN [err |-> getErr, data |-> << >>]
                       ELSE IF ranged THEN RangeOf(blob, offset, offset + size - 1)
                       ELSE [err |-> Nil, data |-> blob]
                dec == IF fsCrypto.nil THEN [ok |-> TRUE, data |-> got.data]
                       ELSE Decrypt(fsCrypto.layers, got.data)
            IN  /\ getErr \in {Nil} \cup GetObjectErrs(blob)
                /\ blob = Absent => getErr # Nil
                /\ ret' = [Returned("Read", handle.key,
                                    IF got.err # Nil THEN mapS3Error(got.err)
                                    ELSE IF ~dec.ok THEN mapCryptoError("DecryptFailed")
                                    ELSE Nil,
                                    << "GetObject" >>)
                              EXCEPT !.offset = offset, !.size = size,
                                     !.err = IF got.err # Nil THEN got.err
                                             ELSE IF ~dec.ok THEN "DecryptFailed"
                                             ELSE Nil,
                                     !.data = IF got.err = Nil /\ dec.ok
                                              THEN Window(dec.data, offset, size)
                                              ELSE << >>]
    /\ UNCHANGED <<fsCrypto, objects, metadataCache, handle>>
    /\ UNCHANGED notFsVars

\* a Flush that caches the length of the bytes it uploaded
FlushedEntrySize(h, uploaded) == Len(uploaded)

\* Flush: the size it caches, int64(h.data.Len())
FlushedEntry(h, uploaded) == Len(h.data)

\* a failed Flush that marks the handle clean
AfterFailedFlushClean(h) == [h EXCEPT !.dirty = FALSE]

\* the handle a Flush leaves when it returns an error: h.dirty = false is not reached
AfterFailedFlush(h) == h

\* a PutObject that overwrites the first bytes of the stored object
PutObjectOver(bucket, key, body) ==
    [bucket EXCEPT ![key] = IF @ = Absent \/ Len(@) <= Len(body) THEN body
                            ELSE body \o SubSeq(@, Len(body) + 1, Len(@))]

\* the bucket after a successful PutObject of body at key
PutObject(bucket, key, body) == [bucket EXCEPT ![key] = body]

\* the body of S3FileHandle.Flush on handle h: what it returns, the backend calls
\* it issues, and the handle, the bucket and the cache it leaves
FlushOf(h, seed, failAt, putErr) ==
    LET untouched == [errno |-> Nil, err |-> Nil, calls |-> << >>, handle |-> h,
                      objects |-> objects, cache |-> metadataCache]
        enc == IF fsCrypto.nil THEN [ok |-> TRUE, data |-> h.data]
               ELSE Encrypt(fsCrypto.layers, seed, failAt, h.data)
    IN  IF ~h.writable \/ ~h.dirty THEN untouched
        ELSE IF h.data = NilBuffer THEN untouched
        ELSE IF ~enc.ok THEN [untouched EXCEPT !.errno = mapCryptoError("EncryptFailed"),
                                               !.err = "EncryptFailed",
                                               !.handle = AfterFailedFlush(h)]
        ELSE IF putErr # Nil
             THEN [untouched EXCEPT !.errno = mapS3Error(putErr), !.err = putErr,
                                    !.calls = << "PutObject" >>,
                                    !.handle = AfterFailedFlush(h)]
        ELSE [errno |-> Nil,
              err |-> Nil,
              calls |-> << "PutObject" >>,
              handle |-> [h EXCEPT !.dirty = FALSE],
              objects |-> PutObject(objects, h.key, enc.data),
              cache |-> [metadataCache EXCEPT ![h.key] =
                            [size |-> FlushedEntry(h, enc.data), lastModified |-> now',
                             isDir |-> FALSE, cacheTime |-> now']]]

\* the outcomes the model draws for a Flush: the random source of layer failAt
\* fails (0: none), PutObject fails with putErr
FlushInputs(seed, failAt, putErr) ==
    /\ seed \in NonceSeeds
    /\ failAt \in (IF fsCrypto.nil THEN {0} ELSE 0..Len(fsCrypto.layers))
    /\ putErr \in {Nil, "AccessDenied"}
    /\ (~handle.writable \/ ~handle.dirty) => (seed = 17 /\ failAt = 0 /\ putErr = Nil)
    /\ failAt # 0 => putErr = Nil

\* S3FileHandle.Flush
HandleFlush(seed, failAt, putErr) ==
    /\ Callback
    /\ handle.open
    /\ FlushInputs(seed, failAt, putErr)
    /\ LET f == FlushOf(handle, seed, failAt, putErr)
       IN  /\ handle' = f.handle
           /\ objects' = f.objects
           /\ metadataCache' = f.cache
           /\ ret' = [Returned("Flush", handle.key, f.errno, f.calls) EXCEPT !.err = f.err]
    /\ UNCHANGED fsCrypto
    /\ UNCHANGED notFsVars

\* S3FileHandle.Release: if h.writable && h.dirty { return h.Flush(...) }
ReleaseFlushes(h) == h.writable /\ h.dirty

\* S3FileHandle.Release; the kernel then drops the handle
HandleRelease(seed, failAt, putErr) ==
    /\ Callback
    /\ handle.open
    /\ FlushInputs(seed, failAt, putErr)
    /\ IF ReleaseFlushes(handle)
       THEN LET f == FlushOf(handle, seed, failAt, putErr)
            IN  /\ objects' = f.objects
                /\ metadataCache' = f.cache
                /\ ret' = [Returned("Release", handle.key, f.errno, f.calls)
                              EXCEPT !.err = f.err]
       ELSE /\ UNCHANGED <<objects, metadataCache>>
            /\ ret' = Returned("Release", handle.key, Nil, << >>)
    /\ handle' = NoHandle
    /\ UNCHANGED fsCrypto
    /\ UNCHANGED notFsVars

\* Remove: MaxKeys of the listing that decides whether the directory is empty
RemoveListKeys == 1

\* S3Node.Remove on directory node nodeKey
NodeRemove(nodeKey, name, dir, listErr, delErr) ==
    /\ Callback
    /\ LET targetKey == nodeKey \o name
           dirKey == targetKey \o << "/" >>
           contents == ListObjectsV2(objects, dirKey, RemoveListKeys)
           nonEmptyCount == Cardinality({j \in 1..Len(contents) : contents[j] # dirKey})
       IN  IF dir
           THEN /\ dirKey \in FsKeys
                /\ IF listErr # Nil
                   THEN /\ delErr = Nil
                        /\ ret' = ReturnedErr("Rmdir", dirKey, listErr,
                                           << "ListObjectsV2" >>)
                        /\ objects' = objects
                   ELSE IF nonEmptyCount > 0
                   THEN /\ delErr = Nil
                        /\ ret' = Returned("Rmdir", dirKey, "ENOTEMPTY", << "ListObjectsV2" >>)
                        /\ objects' = objects
                   ELSE /\ ret' = ReturnedErr("Rmdir", dirKey, delErr,
                                           << "ListObjectsV2", "DeleteObject" >>)
                        /\ objects' = IF delErr = Nil
                                      THEN [objects EXCEPT ![dirKey] = Absent]
                                      ELSE objects
                /\ metadataCache' = metadataCache
           ELSE /\ targetKey \in FileKeys
                /\ listErr = Nil
                /\ ret' = ReturnedErr("Remove", targetKey, delErr, << "DeleteObject" >>)
                /\ objects' = IF delErr = Nil
                              THEN [objects EXCEPT ![targetKey] = Absent]
                              ELSE objects
                /\ metadataCache' = IF delErr = Nil
                                    THEN invalidateCache(metadataCache, targetKey)
                                    ELSE metadataCache
    /\ UNCHANGED <<fsCrypto, handle>>
    /\ UNCHANGED notFsVars

\* S3Node.Mkdir on the root node
NodeMkdir(name, putErr) ==
    /\ Callback
    /\ LET dirKey == name \o << "/" >>
       IN  /\ dirKey \in FsKeys
           /\ objects' = IF putErr = Nil THEN [objects EXCEPT ![dirKey] = << >>] ELSE objects
           /\ ret' = ReturnedErr("Mkdir", dirKey, putErr, << "PutObject" >>)
    /\ UNCHANGED <<fsCrypto, metadataCache, handle>>
    /\ UNCHANGED notFsVars

FS ==
    \/ \E key \in FileKeys, write \in BOOLEAN, headErr \in {Nil, "NotFound", "AccessDenied"} :
          NodeOpen(key, write, headErr)
    \/ \E key \in FileKeys : NodeCreate(key)
    \/ \E offset \in 0..MaxFileLen, bytes \in {<< 88 >>, << 100, 101 >>} :
          HandleWrite(offset, bytes)
    \/ \E offset \in 0..MaxFileLen, size \in 1..MaxFileLen,
          getErr \in {Nil, "NoSuchKey", "NoSuchBucket", "AccessDenied"} :
          HandleRead(offset, size, getErr)
    \/ \E seed \in NonceSeeds, failAt \in 0..2, putErr \in {Nil, "AccessDenied"} :
          HandleFlush(seed, failAt, putErr)
    \/ \E seed \in NonceSeeds, failAt \in 0..2, putErr \in {Nil, "AccessDenied"} :
          HandleRelease(seed, failAt, putErr)
    \/ \E nodeKey \in {<< >>, DirKey}, name \in {<< "h" >>, << "d" >>, << "f" >>},
          dir \in BOOLEAN, listErr \in {Nil, "AccessDenied"}, delErr \in {Nil, "AccessDenied"} :
          NodeRemove(nodeKey, name, dir, listErr, delErr)
    \/ \E putErr \in {Nil, "AccessDenied"} : NodeMkdir(DirName, putErr)

SpecFS == InitFS /\ [][FS]_vars

(***************************************************************************)
(* The metadata cache and the namespace callbacks: Attr, Rename, and the   *)
(* time that passes between callbacks.                                     *)
(***************************************************************************)
\* the latest time of the clock, in seconds: one expiry of the cache
MaxClock == 35
\* getCachedMetadata: an entry is valid for 30 seconds
CacheTTL == 30

\* a cache whose entries never expire
getCachedMetadataForever(key, t) == metadataCache[key]

\* getCachedMetadata at time t: the entry, or NoEntry for nil
getCachedMetadata(key, t) ==
    LET cached == metadataCache[key]
    IN  IF cached = NoEntry THEN NoEntry
        ELSE IF t - cached.cacheTime > CacheTTL THEN NoEntry
        ELSE cached

\* S3Node.Attr on the node of key; lastModified is obj.LastModified (-1: nil)
NodeAttr(key, headErr, lastModified) ==
    /\ Callback
    /\ LET cached == getCachedMetadata(key, now')
           done == Returned("Attr", key, Nil, << >>)
       IN  IF key = DirKey
           THEN /\ headErr = Nil /\ lastModified = -1
                /\ ret' = [done EXCEPT !.attr = [size |-> 0, mtime |-> now']]
                /\ metadataCache' = metadataCache
           ELSE IF cached # NoEntry
           THEN /\ headErr = Nil /\ lastModified = -1
                /\ ret' = [done EXCEPT !.attr = [size |-> cached.size,
                                                 mtime |-> cached.lastModified]]
                /\ metadataCache' = metadataCache
           ELSE IF headErr # Nil
           THEN /\ headErr \in HeadObjectErrs(objects[key])
                /\ lastModified = -1
                /\ ret' = ReturnedErr("Attr", key, headErr, << "HeadObject" >>)
                /\ metadataCache' = metadataCache
           ELSE LET mtime == IF lastModified # -1 THEN lastModified ELSE now'
                    contentLength == Len(objects[key])
                IN  /\ objects[key] # Absent
                    /\ ret' = [done EXCEPT !.calls = << "HeadObject" >>,
                                           !.attr = [size |-> contentLength,
                                                     mtime |-> mtime]]
                    /\ metadataCache' =
                          [metadataCache EXCEPT ![key] =
                              [size |-> contentLength, lastModified |-> mtime,
                               isDir |-> FALSE, cacheTime |-> now']]
    /\ UNCHANGED <<fsCrypto, objects, handle>>
    /\ UNCHANGED notFsVars

\* what the bucket holds at a key, an object or not
ObjectAt(key) == IF key \in DOMAIN objects THEN objects[key] ELSE Absent

\* a Rename that leaves the original in place
RenameResultKeeps(oldKey, newKey) == [objects EXCEPT ![newKey] = objects[oldKey]]

\* the bucket after CopyObject(old -> new) and DeleteObject(old) both succeeded
RenameResult(oldKey, newKey) ==
    [objects EXCEPT ![newKey] = objects[oldKey], ![oldKey] = Absent]

\* S3Node.Rename on directory node nodeKey, into directory node newDirKey;
\* cleanupOk: the best-effort DeleteObject of the copy succeeded
NodeRename(nodeKey, oldName, newDirKey, newName, copyErr, delErr, cleanupOk) ==
    /\ Callback
    /\ LET oldKey == nodeKey \o oldName
           newKey == newDirKey \o newName
           called(e, backendCalls) ==
               [ReturnedErr("Rename", oldKey, e, backendCalls) EXCEPT !.newKey = newKey]
       IN  /\ newKey \in FileKeys /\ oldKey # newKey
           /\ copyErr \in (IF ObjectAt(oldKey) = Absent
                            THEN {"NoSuchKey", "AccessDenied"}
                            ELSE {Nil, "AccessDenied"})
           /\ IF copyErr # Nil
              THEN /\ delErr = Nil /\ cleanupOk
                   /\ ret' = called(copyErr, << "CopyObject" >>)
                   /\ UNCHANGED <<objects, metadataCache>>
              ELSE IF delErr # Nil
              THEN /\ ret' = called(delErr, << "CopyObject", "DeleteObject", "DeleteObject" >>)
                   /\ objects' = [objects EXCEPT ![newKey] =
                                      IF cleanupOk THEN Absent ELSE objects[oldKey]]
                   /\ UNCHANGED metadataCache
              ELSE /\ cleanupOk
                   /\ ret' = called(Nil, << "CopyObject", "DeleteObject" >>)
                   /\ objects' = RenameResult(oldKey, newKey)
                   /\ metadataCache' =
                         invalidateCache(invalidateCache(metadataCache, oldKey), newKey)
    /\ UNCHANGED <<fsCrypto, handle>>
    /\ UNCHANGED notFsVars

\* time passes between two callbacks
Tick(dt) ==
    /\ now + dt <= MaxClock
    /\ now' = now + dt
    /\ UNCHANGED <<fsCrypto, objects, metadataCache, handle, ret, nops>>
    /\ UNCHANGED notFsVars

\* the errors a backend call can come back with
BackendErrors == TypedErrors \cup
    {"NoSuchBucket", "NoSuchKey", "AccessDenied", "Forbidden", "InvalidAccessKeyId",
     "SignatureDoesNotMatch", "BucketAlreadyExists", "BucketAlreadyOwnedByYou",
     "ObjectNotInActiveTierError", "SlowDown", "NotFound"}

Meta ==
    \/ \E key \in FsKeys, headErr \in {Nil, "NotFound", "AccessDenied"},
          lastModified \in {-1, 0} : NodeAttr(key, headErr, lastModified)
    \/ \E oldName \in {<< "h" >>, << "d" >>}, delErr \in {Nil, "AccessDenied"},
          copyErr \in {Nil, "NoSuchKey", "AccessDenied"}, cleanupOk \in BOOLEAN :
          NodeRename(<< >>, oldName, DirKey, << "f" >>, copyErr, delErr, cleanupOk)
    \/ \E delErr \in {Nil, "AccessDenied"}, copyErr \in {Nil, "NoSuchKey", "AccessDenied"},
          cleanupOk \in BOOLEAN :
          NodeRename(DirKey, << "f" >>, << >>, << "h" >>, copyErr, delErr, cleanupOk)
    \/ \E key \in FileKeys : NodeCreate(key)
    \/ HandleWrite(0, << 100, 101 >>)
    \/ \E putErr \in {Nil, "AccessDenied"} : HandleFlush(17, 0, putErr)
    \/ \E nodeKey \in {<< >>, DirKey}, name \in {<< "h" >>, << "f" >>},
          delErr \in {Nil, "AccessDenied"} : NodeRemove(nodeKey, name, FALSE, Nil, delErr)
    \/ \E dt \in {CacheTTL - 1, CacheTTL} : Tick(dt)

SpecMeta == InitFS /\ [][Meta]_vars

(***************************************************************************)
(* mapS3Error and mapCryptoError on every kind of error a callback can be  *)
(* handed: Mkdir for the backend errors, Flush and Read for the crypto     *)
(* errors.                                                                 *)
(***************************************************************************)
Errors ==
    \/ \E key \in FileKeys, write \in BOOLEAN, headErr \in {Nil, "NotFound", "AccessDenied"} :
          NodeOpen(key, write, headErr)
    \/ \E key \in FileKeys : NodeCreate(key)
    \/ HandleWrite(0, << 100, 101 >>)
    \/ \E getErr \in {Nil, "NoSuchKey", "NoSuchBucket", "AccessDenied"} :
          HandleRead(0, MaxFileLen, getErr)
    \/ \E seed \in NonceSeeds, failAt \in 0..2, putErr \in {Nil} \cup BackendErrors :
          HandleFlush(seed, failAt, putErr)
    \/ \E putErr \in {Nil} \cup BackendErrors : NodeMkdir(DirName, putErr)

SpecErrors == InitFS /\ [][Errors]_vars

(***************************************************************************)
(* Lookup (s3fs.go 507-554).  The bucket may hold a file and a directory   *)
(* marker of the same name: the keys "d" and "d/".                         *)
(***************************************************************************)
LookupKeys == FsKeys \cup {DirName}
LookupMaxKeys == 1
NoNode == [key |-> << >>, isDir |-> FALSE]

\* a Lookup that probes the file key before the directory key
LookupResultFileFirst(dirKey, fileKey, headDirErr, headFileErr, listErr, contents) ==
    IF headFileErr = Nil
    THEN [node |-> [key |-> fileKey, isDir |-> FALSE], err |-> Nil, errno |-> Nil,
          calls |-> << "HeadObject" >>, probes |-> << headFileErr >>]
    ELSE IF headDirErr = Nil
    THEN [node |-> [key |-> dirKey, isDir |-> TRUE], err |-> Nil, errno |-> Nil,
          calls |-> << "HeadObject", "HeadObject" >>,
          probes |-> << headFileErr, headDirErr >>]
    ELSE IF listErr # Nil
    THEN [node |-> NoNode, err |-> listErr, errno |-> mapS3Error(listErr),
          calls |-> << "HeadObject", "HeadObject", "ListObjectsV2" >>,
          probes |-> << headFileErr, headDirErr, listErr >>]
    ELSE IF Len(contents) > 0
    THEN [node |-> [key |-> dirKey, isDir |-> TRUE], err |-> Nil, errno |-> Nil,
          calls |-> << "HeadObject", "HeadObject", "ListObjectsV2" >>,
          probes |-> << headFileErr, headDirErr, listErr >>]
    ELSE [node |-> NoNode, err |-> Nil, errno |-> "ENOENT",
          calls |-> << "HeadObject", "HeadObject", "ListObjectsV2" >>,
          probes |-> << headFileErr, headDirErr, listErr >>]

\* the probes of Lookup on a directory node, given what each backend call returns:
\* HeadObject(dirKey), HeadObject(fileKey), ListObjectsV2(Prefix: dirKey, MaxKeys: 1)
LookupResult(dirKey, fileKey, headDirErr, headFileErr, listErr, contents) ==
    IF headDirErr = Nil
    THEN [node |-> [key |-> dirKey, isDir |-> TRUE], err |-> Nil, errno |-> Nil,
          calls |-> << "HeadObject" >>, probes |-> << headDirErr >>]
    ELSE IF headFileErr = Nil
    THEN [node |-> [key |-> fileKey, isDir |-> FALSE], err |-> Nil, errno |-> Nil,
          calls |-> << "HeadObject", "HeadObject" >>,
          probes |-> << headDirErr, headFileErr >>]
    ELSE IF listErr # Nil
    THEN [node |-> NoNode, err |-> listErr, errno |-> mapS3Error(listErr),
          calls |-> << "HeadObject", "HeadObject", "ListObjectsV2" >>,
          probes |-> << headDirErr, headFileErr, listErr >>]
    ELSE IF Len(contents) > 0
    THEN [node |-> [key |-> dirKey, isDir |-> TRUE], err |-> Nil, errno |-> Nil,
          calls |-> << "HeadObject", "HeadObject", "ListObjectsV2" >>,
          probes |-> << headDirErr, headFileErr, listErr >>]
    ELSE [node |-> NoNode, err |-> Nil, errno |-> "ENOENT",
          calls |-> << "HeadObject", "HeadObject", "ListObjectsV2" >>,
          probes |-> << headDirErr, headFileErr, listErr >>]

\* S3Node.Lookup of name on the node (nodeKey, isDir)
NodeLookup(nodeKey, isDir, name, headDirErr, headFileErr, listErr) ==
    /\ Callback
    /\ LET fileKey == nodeKey \o name
           dirKey == fileKey \o << "/" >>
           found == LookupResult(dirKey, fileKey, headDirErr, headFileErr, listErr,
                             ListObjectsV2(objects, dirKey, LookupMaxKeys))
       IN  IF ~isDir
           THEN /\ headDirErr = "NotFound" /\ headFileErr = "NotFound" /\ listErr = Nil
                /\ ret' = [Returned("Lookup", fileKey, "ENOTDIR", << >>) EXCEPT
                               !.newKey = dirKey]
           ELSE /\ headDirErr \in (IF ObjectAt(dirKey) = Absent THEN {"NotFound", "AccessDenied"}
                                    ELSE {Nil, "AccessDenied"})
                /\ IF headDirErr = Nil
                   THEN headFileErr = "NotFound" /\ listErr = Nil
                   ELSE /\ headFileErr \in (IF ObjectAt(fileKey) = Absent
                                             THEN {"NotFound", "AccessDenied"}
                                             ELSE {Nil, "AccessDenied"})
                        /\ headFileErr = Nil => listErr = Nil
                /\ ret' = [Returned("Lookup", fileKey, found.errno, found.calls) EXCEPT
                               !.err = found.err, !.node = found.node, !.probes = found.probes,
                               !.newKey = dirKey]
    /\ UNCHANGED <<fsCrypto, objects, metadataCache, handle>>
    /\ UNCHANGED notFsVars

InitLookup ==
    /\ RegIdle
    /\ ConcIdle
    /\ InitObjects
    /\ \A i \in Backends : crypto[i] = NoCrypto
    /\ \A i \in Backends, k \in Keys : store[i][k] = Absent
    /\ HttpIdle
    /\ CryptIdle
    /\ fsCrypto \in {NoCrypto, Pipeline}
    /\ objects \in [LookupKeys -> {Absent, << >>, StoredBlob(fsCrypto)}]
    /\ objects[DirKey] \in {Absent, << >>}
    /\ \A k \in LookupKeys \ {DirKey} : objects[k] \in {Absent, StoredBlob(fsCrypto)}
    /\ metadataCache = [k \in LookupKeys |-> NoEntry]
    /\ handle = NoHandle
    /\ now = 0
    /\ ret = NoRet
    /\ nops = 0

Lookups ==
    \/ \E name \in {DirName, FileKey},
          headDirErr \in {Nil, "NotFound", "AccessDenied"},
          headFileErr \in {Nil, "NotFound", "AccessDenied"},
          listErr \in {Nil, "AccessDenied"} :
          NodeLookup(<< >>, TRUE, name, headDirErr, headFileErr, listErr)
    \/ \E headDirErr \in {Nil, "NotFound", "AccessDenied"},
          headFileErr \in {Nil, "NotFound", "AccessDenied"},
          listErr \in {Nil, "AccessDenied"} :
          NodeLookup(DirKey, TRUE, << "f" >>, headDirErr, headFileErr, listErr)
    \/ NodeLookup(FileKey, FALSE, << "f" >>, "NotFound", "NotFound", Nil)
    \/ \E putErr \in {Nil, "AccessDenied"} : NodeMkdir(DirName, putErr)
    \/ \E delErr \in {Nil, "AccessDenied"} : NodeRemove(<< >>, FileKey, FALSE, Nil, delErr)
    \/ \E delErr \in {Nil, "AccessDenied"} : NodeRemove(DirKey, << "f" >>, FALSE, Nil, delErr)

SpecLookup == InitLookup /\ [][Lookups]_vars

(***************************************************************************)
(* Overlapping callbacks (s3fs.go 426-504, 764-779, 845-1041).  Each       *)
(* callback is cut where another goroutine can run in between: at          *)
(* h.mu.Lock(), before and after a backend call, and between the           *)
(* statements that come before the lock is taken.  The functions of the    *)
(* cache hold fs.mu from their first statement to their last.              *)
(***************************************************************************)
\* callbacks per run
MaxCalls == 3
ConcOps == {"Write", "Read", "Flush", "Release", "Attr", "Remove"}

\* the first statement of a callback
FirstPc(op) ==
    CASE op = "Write"   -> "writable"
      [] op = "Read"    -> "lock"
      [] op = "Flush"   -> "check"
      [] op = "Release" -> "relcheck"
      [] op = "Attr"    -> "cached"
      [] OTHER          -> "delete"

\* goroutine t moves on to the statement at label
Goto(t, label) == thr' = [thr EXCEPT ![t].pc = label]

\* the callback of goroutine t returns
Return(t, errno, backendCalls) ==
    /\ thr' = [thr EXCEPT ![t] = NoCall]
    /\ ret' = [Returned(thr[t].op, thr[t].key, errno, backendCalls) EXCEPT
                   !.offset = thr[t].offset, !.bytes = thr[t].bytes]

\* the kernel sends a request and bazil/fuse starts the goroutine that serves it
Call(t, op, offset, bytes) ==
    /\ thr[t].pc = "idle"
    /\ nops < MaxCalls
    /\ nops' = nops + 1
    /\ thr' = [thr EXCEPT ![t] = [op |-> op, pc |-> FirstPc(op), key |-> handle.key,
                                  offset |-> offset, bytes |-> bytes, seen |-> -1]]
    /\ UNCHANGED <<fsCrypto, objects, metadataCache, handle, now, ret>>
    /\ UNCHANGED <<mu, unsynced, gone>>
    /\ UNCHANGED notFsConcVars

\* Write: if !h.writable { return EBADF }, before the lock; writable never changes
WriteWritable(t) ==
    /\ thr[t].pc = "writable"
    /\ now' = now
    /\ IF ~handle.writable
       THEN Return(t, "EBADF", << >>)
       ELSE Goto(t, "lock") /\ ret' = ret
    /\ UNCHANGED <<fsCrypto, objects, metadataCache, handle, nops>>
    /\ UNCHANGED <<mu, unsynced, gone>>
    /\ UNCHANGED notFsConcVars

\* h.mu.Lock()
Lock(t) ==
    /\ thr[t].pc = "lock"
    /\ mu = 0
    /\ mu' = t
    /\ Goto(t, "locked")
    /\ UNCHANGED fsVars
    /\ UNCHANGED <<unsynced, gone>>
    /\ UNCHANGED notFsConcVars

\* Write from h.mu.Lock() to the deferred h.mu.Unlock()
WriteLocked(t) ==
    /\ thr[t].pc = "locked" /\ thr[t].op = "Write" /\ mu = t
    /\ now' = now
    /\ LET w == WriteBuffer(handle.data, thr[t].offset, thr[t].bytes)
       IN  /\ handle' = [handle EXCEPT !.data = w.data,
                                       !.dirty = IF w.errno = Nil THEN w.dirty ELSE @]
           /\ Return(t, w.errno, << >>)
    /\ mu' = 0
    /\ UNCHANGED <<fsCrypto, objects, metadataCache, nops>>
    /\ UNCHANGED <<unsynced, gone>>
    /\ UNCHANGED notFsConcVars

\* Read from h.mu.Lock() to the deferred h.mu.Unlock()
ReadLocked(t) ==
    /\ thr[t].pc = "locked" /\ thr[t].op = "Read" /\ mu = t
    /\ now' = now
    /\ IF ReadFromBuffer(handle)
       THEN /\ thr' = [thr EXCEPT ![t] = NoCall]
            /\ ret' = [Returned("Read", thr[t].key, Nil, << >>) EXCEPT
                           !.data = Window(handle.data, 0, MaxFileLen)]
       ELSE IF objects[thr[t].key] = Absent
       THEN /\ thr' = [thr EXCEPT ![t] = NoCall]
            /\ ret' = ReturnedErr("Read", thr[t].key, "NoSuchKey", << "GetObject" >>)
       ELSE /\ thr' = [thr EXCEPT ![t] = NoCall]
            /\ ret' = [Returned("Read", thr[t].key, Nil, << "GetObject" >>) EXCEPT
                           !.data = Window(objects[thr[t].key], 0, MaxFileLen)]
    /\ mu' = 0
    /\ UNCHANGED <<fsCrypto, objects, metadataCache, handle, nops>>
    /\ UNCHANGED <<unsynced, gone>>
    /\ UNCHANGED notFsConcVars

\* an access of goroutine t to a field of the handle, recorded when t does not
\* hold h.mu
Access(t, field) ==
    IF mu = t THEN unsynced
    ELSE unsynced \cup {[op |-> thr[t].op, field |-> field]}

\* Flush: if !h.writable || !h.dirty { return nil }, before h.mu.Lock()
FlushCheck(t) ==
    /\ thr[t].pc = "check"
    /\ now' = now
    /\ unsynced' = Access(t, "dirty")
    /\ IF ~handle.writable \/ ~handle.dirty
       THEN Return(t, Nil, << >>)
       ELSE Goto(t, "lock") /\ ret' = ret
    /\ UNCHANGED <<fsCrypto, objects, metadataCache, handle, nops>>
    /\ UNCHANGED <<mu, gone>>
    /\ UNCHANGED notFsConcVars

\* Flush from h.mu.Lock() to the deferred h.mu.Unlock(): h.dirty is not read
\* again, the buffer is uploaded as it is now
FlushLocked(t, putErr) ==
    /\ thr[t].pc = "locked" /\ thr[t].op \in {"Flush", "Release"} /\ mu = t
    /\ now' = now
    /\ LET f == FlushOf([handle EXCEPT !.dirty = TRUE], 17, 0, putErr)
           uploaded == f.errno = Nil /\ f.calls # << >>
       IN  /\ handle' = IF uploaded THEN f.handle ELSE handle
           /\ objects' = f.objects
           /\ metadataCache' = f.cache
           /\ gone' = IF uploaded THEN gone \ {thr[t].key} ELSE gone
           /\ putErr # Nil => f.calls # << >>
           /\ Return(t, f.errno, f.calls)
    /\ mu' = 0
    /\ UNCHANGED <<fsCrypto, nops>>
    /\ UNCHANGED unsynced
    /\ UNCHANGED notFsConcVars

\* Release: if h.writable && h.dirty { return h.Flush(ctx, nil) }, without h.mu
ReleaseCheck(t) ==
    /\ thr[t].pc = "relcheck"
    /\ now' = now
    /\ unsynced' = Access(t, "dirty")
    /\ IF ReleaseFlushes(handle)
       THEN Goto(t, "check") /\ ret' = ret
       ELSE Return(t, Nil, << >>)
    /\ UNCHANGED <<fsCrypto, objects, metadataCache, handle, nops>>
    /\ UNCHANGED <<mu, gone>>
    /\ UNCHANGED notFsConcVars

\* Attr: getCachedMetadata
AttrCached(t) ==
    /\ thr[t].pc = "cached"
    /\ now' = now
    /\ LET cached == getCachedMetadata(thr[t].key, now)
       IN  IF cached # NoEntry
           THEN /\ thr' = [thr EXCEPT ![t] = NoCall]
                /\ ret' = [Returned("Attr", thr[t].key, Nil, << >>) EXCEPT
                               !.attr = [size |-> cached.size,
                                         mtime |-> cached.lastModified]]
           ELSE Goto(t, "head") /\ ret' = ret
    /\ UNCHANGED <<fsCrypto, objects, metadataCache, handle, nops>>
    /\ UNCHANGED <<mu, unsynced, gone>>
    /\ UNCHANGED notFsConcVars

\* Attr: HeadObject
AttrHead(t) ==
    /\ thr[t].pc = "head"
    /\ now' = now
    /\ IF objects[thr[t].key] = Absent
       THEN /\ thr' = [thr EXCEPT ![t] = NoCall]
            /\ ret' = ReturnedErr("Attr", thr[t].key, "NotFound", << "HeadObject" >>)
       ELSE /\ thr' = [thr EXCEPT ![t].pc = "cache",
                                  ![t].seen = Len(objects[thr[t].key])]
            /\ ret' = ret
    /\ UNCHANGED <<fsCrypto, objects, metadataCache, handle, nops>>
    /\ UNCHANGED <<mu, unsynced, gone>>
    /\ UNCHANGED notFsConcVars

\* Attr: node.cacheMetadata(*obj.ContentLength, a.Mtime, false) with what
\* HeadObject returned
AttrCache(t) ==
    /\ thr[t].pc = "cache"
    /\ now' = now
    /\ metadataCache' = [metadataCache EXCEPT ![thr[t].key] =
                             [size |-> thr[t].seen, lastModified |-> now,
                              isDir |-> FALSE, cacheTime |-> now]]
    /\ thr' = [thr EXCEPT ![t] = NoCall]
    /\ ret' = [Returned("Attr", thr[t].key, Nil, << "HeadObject" >>) EXCEPT
                   !.attr = [size |-> thr[t].seen, mtime |-> now]]
    /\ UNCHANGED <<fsCrypto, objects, handle, nops>>
    /\ UNCHANGED <<mu, unsynced, gone>>
    /\ UNCHANGED notFsConcVars

\* Remove of a file: DeleteObject
RemoveDelete(t, delErr) ==
    /\ thr[t].pc = "delete"
    /\ now' = now
    /\ IF delErr # Nil
       THEN /\ thr' = [thr EXCEPT ![t] = NoCall]
            /\ ret' = ReturnedErr("Remove", thr[t].key, delErr, << "DeleteObject" >>)
            /\ objects' = objects
       ELSE /\ Goto(t, "invalidate")
            /\ ret' = ret
            /\ objects' = [objects EXCEPT ![thr[t].key] = Absent]
    /\ UNCHANGED <<fsCrypto, metadataCache, handle, nops>>
    /\ UNCHANGED <<mu, unsynced, gone>>
    /\ UNCHANGED notFsConcVars

\* Remove of a file: fileNode.invalidateCache(), return nil
RemoveInvalidate(t) ==
    /\ thr[t].pc = "invalidate"
    /\ now' = now
    /\ metadataCache' = invalidateCache(metadataCache, thr[t].key)
    /\ gone' = gone \cup {thr[t].key}
    /\ Return(t, Nil, << "DeleteObject" >>)
    /\ UNCHANGED <<fsCrypto, objects, handle, nops>>
    /\ UNCHANGED <<mu, unsynced>>
    /\ UNCHANGED notFsConcVars

\* the handles Create, Open for writing and Open for reading return
OpenHandles ==
    {[key |-> FileKey, writable |-> TRUE, data |-> << >>, dirty |-> TRUE, open |-> TRUE],
     [key |-> FileKey, writable |-> TRUE, data |-> NilBuffer, dirty |-> FALSE,
      open |-> TRUE],
     [key |-> FileKey, writable |-> FALSE, data |-> NilBuffer, dirty |-> FALSE,
      open |-> TRUE]}

InitConc ==
    /\ InitObjects
    /\ \A i \in Backends : crypto[i] = NoCrypto
    /\ \A i \in Backends, k \in Keys : store[i][k] = Absent
    /\ HttpIdle
    /\ CryptIdle
    /\ RegIdle
    /\ fsCrypto = NoCrypto
    /\ objects \in [FsKeys -> {Absent, StoredBlob(NoCrypto)}]
    /\ objects[DirKey] = Absent /\ objects[ChildKey] = Absent
    /\ metadataCache = [k \in FsKeys |-> NoEntry]
    /\ handle \in OpenHandles
    /\ now = 0
    /\ ret = NoRet
    /\ nops = 0
    /\ thr = [t \in Threads |-> NoCall]
    /\ mu = 0
    /\ unsynced = {}
    /\ gone = {}

Concurrent ==
    \/ \E t \in Threads, op \in ConcOps \ {"Write"} : Call(t, op, 0, << >>)
    \/ \E t \in Threads, offset \in 0..1 : Call(t, "Write", offset, << 88 >>)
    \/ \E t \in Threads : WriteWritable(t)
    \/ \E t \in Threads : Lock(t)
    \/ \E t \in Threads : WriteLocked(t)
    \/ \E t \in Threads : ReadLocked(t)
    \/ \E t \in Threads : FlushCheck(t)
    \/ \E t \in Threads, putErr \in {Nil, "AccessDenied"} : FlushLocked(t, putErr)
    \/ \E t \in Threads : ReleaseCheck(t)
    \/ \E t \in Threads : AttrCached(t)
    \/ \E t \in Threads : AttrHead(t)
    \/ \E t \in Threads : AttrCache(t)
    \/ \E t \in Threads, delErr \in {Nil, "AccessDenied"} : RemoveDelete(t, delErr)
    \/ \E t \in Threads : RemoveInvalidate(t)

SpecConc == InitConc /\ [][Concurrent]_vars

(***************************************************************************)
(* api.New: the registry of logical buckets built from the configuration,  *)
(* and the bucket a request is evaluated against once New has returned.    *)
(***************************************************************************)
\* longest list of backends of one configured bucket
MaxBackendCfgs == 2
\* cfg.S3Clients and cfg.Cryptos: the ids the configuration defines
s3Clients == {"c1"}
cryptos == {"x1"}
\* one entry of cfgBucket.Backends (crypto_id "" for none)
BackendCfgs == [S3ClientID : {"c1", "cX"}, CryptoID : {"", "x1", "xX"}]
BackendLists == UNION {[1..n -> BackendCfgs] : n \in 0..MaxBackendCfgs}
\* the names of cfg.S3Buckets, in the order of the file
BucketNames == << << "vault" >>, << "logs" >> >>

\* the error New returns for one backend of a bucket, Nil when it appends it
BackendCfgErr(b) ==
    IF b.S3ClientID \notin s3Clients THEN "unknown S3 client ID"
    ELSE IF b.CryptoID # "" /\ b.CryptoID \notin cryptos THEN "unknown crypto ID"
    ELSE Nil

\* the backends of all buckets in the order New visits them
RECURSIVE AllBackendCfgs(_, _)
AllBackendCfgs(cfgB, i) ==
    IF i > Len(BucketNames) THEN << >>
    ELSE (IF BucketNames[i] \in DOMAIN cfgB THEN cfgB[BucketNames[i]] ELSE << >>)
         \o AllBackendCfgs(cfgB, i + 1)

\* the error New returns: that of the first backend it cannot resolve
NewErr(cfgB) ==
    LET all == AllBackendCfgs(cfgB, 1)
        bad == {i \in 1..Len(all) : BackendCfgErr(all[i]) # Nil}
    IN  IF bad = {} THEN Nil
        ELSE BackendCfgErr(all[CHOOSE i \in bad : \A j \in bad : i <= j])

\* api.New(cfg): buckets[cfgBucket.BucketName] = bucket, with one s3Backend per
\* entry of cfgBucket.Backends
New ==
    /\ ~started
    /\ started' = TRUE
    /\ newErr' = NewErr(cfgBuckets)
    /\ pBuckets' = IF newErr' = Nil THEN cfgBuckets ELSE << >>
    /\ UNCHANGED <<cfgBuckets, served>>
    /\ UNCHANGED notRegVars

\* what a handler answers for a bucket whose list of backends is empty: handlePut
\* starts no goroutine and falls through to 502, handleGet, handleHead and
\* handleProxy answer 500, handleDelete has no real error and answers 204
EmptyListStatus(handler) ==
    CASE handler = "handlePut"    -> 502
      [] handler = "handleGet"    -> 500
      [] handler = "handleHead"   -> 500
      [] handler = "handleDelete" -> 204
      [] OTHER                    -> 500

\* the statuses a handler answers with for a bucket with backends
HandlerStatuses(handler) ==
    CASE handler = "handlePut"    -> {200, 500, 502}
      [] handler = "handleGet"    -> {200, 404, 500, 502}
      [] handler = "handleHead"   -> {200, 404, 502}
      [] handler = "handleDelete" -> {204, 502}
      [] OTHER                    -> {200, 404, 500, 502}

\* ServeHTTP on the proxy New returned: bucket := p.buckets[strBucket], the
\* handler for it (handleProxy takes any bucket of p.buckets for a nil one)
Evaluate(method, name, keyed, any, status) ==
    /\ started /\ newErr = Nil
    /\ served = NoServed
    /\ any \in DOMAIN pBuckets
    /\ name \in DOMAIN pBuckets => any = name
    /\ LET handler == IF name \in DOMAIN pBuckets /\ keyed
                      THEN CASE method \in {"PUT", "POST"} -> "handlePut"
                             [] method = "GET"             -> "handleGet"
                             [] method = "HEAD"            -> "handleHead"
                             [] method = "DELETE"          -> "handleDelete"
                             [] OTHER                      -> "handleProxy"
                      ELSE "handleProxy"
           backends == pBuckets[any]
       IN  /\ status \in (IF Len(backends) = 0 THEN {EmptyListStatus(handler)}
                           ELSE HandlerStatuses(handler))
           /\ served' = [method |-> method, bucket |-> any, handler |-> handler,
                         bindings |-> Len(backends), status |-> status]
    /\ UNCHANGED <<cfgBuckets, started, newErr, pBuckets>>
    /\ UNCHANGED notRegVars

InitNew ==
    /\ ConcIdle
    /\ InitObjects
    /\ \A i \in Backends : crypto[i] = NoCrypto
    /\ \A i \in Backends, k \in Keys : store[i][k] = Absent
    /\ HttpIdle
    /\ CryptIdle
    /\ FsIdle
    /\ \E names \in {{<< "vault" >>}, {<< "vault" >>, << "logs" >>}} :
          cfgBuckets \in [names -> BackendLists]
    /\ started = FALSE
    /\ newErr = Nil
    /\ pBuckets = << >>
    /\ served = NoServed

Startup ==
    \/ New
    \/ \E method \in Methods, name \in {<< "vault" >>, << "logs" >>, << "other" >>},
          keyed \in BOOLEAN, any \in {<< "vault" >>, << "logs" >>},
          status \in {200, 204, 404, 500, 502} :
          Evaluate(method, name, keyed, any, status)

SpecNew == InitNew /\ [][Startup]_vars

(***************************************************************************)
(* Properties of the replication engine.                                   *)
(***************************************************************************)
Responded(method) == phase = "Responded" /\ req.method = method
\* every goroutine of the request ran to its end
Joined == \A i \in Backends : pc[i] = "done"
\* the request served just before this one was of this method and for the same key
After(method) == prev.method = method /\ prev.key = req.key
AllCrypto == \A i \in Backends : ~crypto[i].nil

\* C1: handlePut answers 200 whenever, all goroutines having finished, at least
\* one binding's PutObject succeeded.
C1_PutOneSuccessIs200 ==
    (Responded("PUT") /\ Joined /\ \E i \in Backends : putOutcome[i] = "ok")
        => resp.status = 200

\* C2: handlePut answers 502 whenever, all goroutines having finished, no
\* binding's PutObject succeeded.
C2_PutNoSuccessIs502 ==
    (Responded("PUT") /\ Joined /\ \A i \in Backends : putOutcome[i] # "ok")
        => resp.status = 502

OneFailed(failed, ok) ==
    NumBackends >= 2 /\ Cardinality(failed) = 1 /\ ok = Backends \ failed

\* C4: a PUT in which exactly one binding's PutObject fails answers 200, and the
\* GET that follows answers 200 with the body that was PUT.
C4_PartialPutReadable ==
    /\ (Responded("PUT") /\ Joined
          /\ OneFailed({i \in Backends : putOutcome[i] = "fail"},
                       {i \in Backends : putOutcome[i] = "ok"}))
         => resp.status = 200
    /\ (Responded("GET") /\ After("PUT") /\ ~fault /\ OneFailed(prev.putFail, prev.putOk))
         => (prev.status = 200 /\ resp.status = 200 /\ resp.body = prev.body)

\* the bytes handleGet hands out for the object binding i holds
Plain(i) ==
    IF crypto[i].nil
    THEN [ok |-> TRUE, data |-> store[i][req.key]]
    ELSE Decrypt(crypto[i].layers, store[i][req.key])

\* C5: handleGet contacts the bindings in configured order, one at a time; it
\* answers 200 from the first binding whose GetObject, body read and decrypt all
\* succeed, with that binding's object, and contacts no binding after it; it
\* answers an error only after every binding failed.
C5_GetFallbackOrder ==
    req.method = "GET" =>
        /\ \A j \in 1..Len(contacted) : contacted[j] = <<"GetObject", j>>
        /\ \A j \in 1..Len(backendErrors) : backendErrors[j].binding = j
        /\ Len(contacted) <= NumBackends
        /\ (phase = "Responded" /\ resp.status = 200) =>
              LET s == Len(contacted)
              IN  /\ s >= 1
                  /\ Len(backendErrors) = s - 1
                  /\ store[s][req.key] # Absent
                  /\ Plain(s).ok
                  /\ resp.body = Plain(s).data
        /\ (phase = "Responded" /\ resp.status # 200) =>
              /\ Len(contacted) = NumBackends
              /\ Len(backendErrors) = NumBackends

C5_Witness ==
    /\ Responded("GET") /\ resp.status = 200
    /\ Len(contacted) = 2
    /\ backendErrors[1].err = "NoSuchKey"
    /\ resp.body = OldBody

\* the entries of backendErrors that are GetObject errors classified not-found
NotFoundEntries ==
    {j \in 1..Len(backendErrors) :
        backendErrors[j].stage = "get" /\ IsNotFound(backendErrors[j].err)}

\* C6: when no binding succeeds handleGet answers 404 if every binding's
\* GetObject error was classified not-found, and 502 in every other case.
C6_GetFailureReduction ==
    (Responded("GET") /\ resp.status # 200) =>
        /\ Len(backendErrors) = NumBackends
        /\ resp.status = IF NotFoundEntries = 1..NumBackends THEN 404 ELSE 502

C6_Witness ==
    /\ Responded("GET") /\ resp.status = 404
    /\ \E j \in 1..Len(backendErrors) : backendErrors[j].err = "NoSuchBucket"

\* the entries of backendErrors that are decrypt failures
DecryptEntries == {j \in 1..Len(backendErrors) : backendErrors[j].stage = "decrypt"}

\* C7: a binding whose object fails to decrypt is skipped and the next one is
\* tried; the failure is not counted as not-found, so with a decrypt failure and
\* no success the answer is 502; a 200 carries bytes that decrypted.
C7_DecryptFailureSkips ==
    req.method = "GET" =>
        /\ notFoundCount = Cardinality(NotFoundEntries)
        /\ \A j \in DecryptEntries :
              /\ store[j][req.key] # Absent /\ ~Plain(j).ok
              /\ (phase = "Responded" /\ j < NumBackends) => Len(contacted) > j
        /\ (phase = "Responded" /\ DecryptEntries # {}) => resp.status \in {200, 502}
        /\ (phase = "Responded" /\ resp.status = 200) =>
              /\ Len(contacted) \notin DecryptEntries
              /\ Plain(Len(contacted)).ok
              /\ resp.body = Plain(Len(contacted)).data

C7_Witness ==
    /\ Responded("GET") /\ resp.status = 502
    /\ DecryptEntries # {}
    /\ NotFoundEntries # {}
    /\ DecryptEntries \cup NotFoundEntries = 1..NumBackends

\* the binding a HEAD or GET reaches first when no backend call fails: the first
\* one that holds an object at the key
FirstHolder(i) ==
    /\ store[i][req.key] # Absent
    /\ \A j \in Backends : j < i => store[j][req.key] = Absent

DeleteSucceeded ==
    {i \in Backends : delOutcome[i] = Nil \/ Contains(ErrText(delOutcome[i]), "NoSuchKey")}

IsHealthz == r.method = "GET" /\ r.path = HealthzPath
\* ServeHTTP is past its authentication step
AuthDecided == hpc \in {"authenticated", "parsed", "done"} /\ ~IsHealthz

\* C12: GET /healthz is answered 200 "ok" whatever its Authorization header; for
\* every other request a handler is called and a backend call issued only if
\* AuthenticateRequest returned nil, and a request that fails authentication is
\* answered with one 401 and nothing else.
C12_AuthGate ==
    /\ (IsHealthz /\ hpc = "done") =>
          /\ written = << [status |-> 200, body |-> "ok"] >>
          /\ routed = << >> /\ calls = << >>
    /\ (routed # << >> \/ calls # << >>) =>
          /\ ~IsHealthz
          /\ AuthenticateRequest(r.header) = Nil
          /\ written = << >>
    /\ (AuthDecided /\ AuthenticateRequest(r.header) # Nil) =>
          /\ hpc = "done"
          /\ written = << [status |-> 401, body |-> AuthenticateRequest(r.header)] >>
          /\ routed = << >> /\ calls = << >>

C12_Witness ==
    /\ hpc = "done"
    /\ r.method = "PUT" /\ r.path = << "/", "vault", "/", "hello" >>
    /\ r.header = BearerHeader
    /\ written = << [status |-> 401, body |-> "invalid Authorization header format"] >>
    /\ calls = << >>

\* the headers C13 describes: the configured scheme, a space, Credential=, an
\* allowed access key, and then the end of the key (a slash, the end of the
\* parameter or the end of the header)
CarriesAllowedCredential(header) ==
    \E key \in auth :
        LET start == headerFormat \o << " ", "Credential", "=" >> \o key
        IN  /\ HasPrefix(header, start)
            /\ (Len(header) = Len(start) \/ header[Len(start) + 1] \in {"/", " "})

\* C13: AuthenticateRequest returns nil if and only if the Authorization header is
\* present, starts with the configured scheme and carries Credential=<ACCESSKEY>
\* with an access key of the allowed set.
C13_AuthenticateIff ==
    AuthDecided => (authErr = Nil <=> CarriesAllowedCredential(r.header))

\* the handler C14 names for a request
IsObjectPath(path) ==
    \E b \in buckets :
        /\ HasPrefix(path, << "/" >> \o b \o << "/" >>)
        /\ Len(path) > Len(b) + 2
ObjectHandlers == {"handlePut", "handleGet", "handleHead", "handleDelete"}

\* C14: an authenticated request for /bucket/key with a configured bucket and a
\* non-empty key is given to handlePut (PUT, POST), handleGet (GET), handleHead
\* (HEAD) or handleDelete (DELETE); every other authenticated request is given to
\* the passthrough proxy and to no object-level handler.
C14_Routing ==
    (hpc = "done" /\ ~IsHealthz /\ authErr = Nil) =>
        /\ Len(routed) = 1
        /\ routed[1] =
              IF IsObjectPath(r.path) /\ r.method \in {"PUT", "POST"} THEN "handlePut"
              ELSE IF IsObjectPath(r.path) /\ r.method = "GET" THEN "handleGet"
              ELSE IF IsObjectPath(r.path) /\ r.method = "HEAD" THEN "handleHead"
              ELSE IF IsObjectPath(r.path) /\ r.method = "DELETE" THEN "handleDelete"
              ELSE "handleProxy"
        /\ calls = IF routed[1] = "handleProxy" /\ resp.status = 500
                   THEN << >>
                   ELSE << BackendCall(routed[1]) >>
        /\ routed[1] \in ObjectHandlers => strKey # << >> /\ strBucket \in buckets

C14_Witness ==
    /\ hpc = "done" /\ authErr = Nil
    /\ r.method = "DELETE" /\ r.path = << "/", "vault", "/" >>
    /\ routed = << "handleProxy" >>
    /\ calls = << "Forward" >>

(***************************************************************************)
(* Properties of MultiLayerCrypt (SpecCrypt).                              *)
(***************************************************************************)
\* the length Encrypt gives len bytes: every layer adds its nonce and its tag
EncryptedLen(layerSeq, len) == len + Len(layerSeq) * (NonceSize + TagSize)

\* C15: Decrypt of what Encrypt returned, by the same layers, returns the bytes
\* that were given to Encrypt; Encrypt applies the layers in forward order (the
\* outermost nonce and tag are the last layer's) and Decrypt undoes them in
\* reverse; an operation in which a layer fails returns an error and no data.
C15_CryptoInverse ==
    /\ (cpc = "decrypted" /\ layers = writer /\ ~tampered) =>
          (decrypted.ok /\ decrypted.data = data)
    /\ (cpc # "plain" /\ encrypted.ok /\ ~tampered) =>
          /\ Len(encrypted.data) = EncryptedLen(writer, Len(data))
          /\ Len(writer) > 0 =>
                LET unwrapped == LayerDecrypt(writer[Len(writer)], encrypted.data)
                IN  /\ unwrapped.ok
                    /\ Len(writer) = 1 => unwrapped.data = data
    /\ (cpc # "plain" /\ ~encrypted.ok) => encrypted.data = << >>
    /\ (cpc = "decrypted" /\ ~decrypted.ok) => decrypted.data = << >>
    /\ (cpc = "decrypted" /\ tampered /\ Len(layers) > 0) => ~decrypted.ok

C15_Witness ==
    /\ cpc = "decrypted" /\ layers = writer /\ ~tampered
    /\ Len(layers) = 2 /\ layers[1] # layers[2]
    /\ data = << 7, 255 >>
    /\ decrypted.ok /\ decrypted.data = << 7, 255 >>

(***************************************************************************)
(* Properties of the filesystem adapter (SpecFS).                          *)
(***************************************************************************)
\* the last callback was op, on a handle that was open
Did(op) == ret.op = op /\ ret.before.open
\* n zero bytes
Zeros(n) == [i \in 1..n |-> 0]
\* the plaintext of the object the bucket holds at key k
FsPlain(k) ==
    IF fsCrypto.nil THEN [ok |-> TRUE, data |-> objects[k]]
    ELSE Decrypt(fsCrypto.layers, objects[k])

\* C16: a Write on a writable handle whose buffer holds L bytes appends at
\* offset = L, pads with zero bytes up to the offset and appends at offset > L,
\* and at offset < L returns ESPIPE leaving buffer and dirty flag as they were;
\* it issues no backend call, and a successful Write leaves dirty = true.
C16_WriteSemantics ==
    (Did("Write") /\ ret.before.writable) =>
        LET old == BufferBytes(ret.before.data)
            L == Len(old)
        IN  /\ ret.calls = << >>
            /\ ret.offset = L =>
                  /\ ret.errno = Nil
                  /\ handle.data = old \o ret.bytes
                  /\ handle.dirty
            /\ ret.offset > L =>
                  /\ ret.errno = Nil
                  /\ handle.data = old \o Zeros(ret.offset - L) \o ret.bytes
                  /\ handle.dirty
            /\ ret.offset < L =>
                  /\ ret.errno = "ESPIPE"
                  /\ handle.data = old
                  /\ handle.dirty = ret.before.dirty

C16_Witness ==
    /\ Did("Write") /\ ret.before.writable
    /\ ret.before.data = << 100, 101 >> /\ ret.before.dirty
    /\ ret.offset = 1 /\ ret.bytes = << 88 >>
    /\ ret.errno = "ESPIPE"
    /\ handle.data = << 100, 101 >>

\* C17: with "abcde" stored at the key, the first Write on a handle that Open just
\* returned for writing, of "X" at offset 2, returns ESPIPE and leaves the handle
\* with nothing to upload.
C17_FreshOpenBackSeek ==
    (Did("Write") /\ ret.before.writable /\ ret.before.data = NilBuffer
        /\ FsPlain(ret.key) = [ok |-> TRUE, data |-> StoredBody]
        /\ ret.offset = 2 /\ ret.bytes = << 88 >>)
        => (ret.errno = "ESPIPE" /\ ~handle.dirty)

\* C18: a Read on a handle whose dirty flag is true returns the window
\* [offset, offset+size) of the handle's buffer, clipped to the buffer's length,
\* and issues no backend call.
C18_ReadFromBuffer ==
    (Did("Read") /\ ret.before.dirty) =>
        LET len == Len(handle.data)
            n == IF ret.offset >= len THEN 0
                 ELSE IF ret.offset + ret.size > len THEN len - ret.offset
                 ELSE ret.size
        IN  /\ ret.calls = << >>
            /\ ret.errno = Nil
            /\ handle = ret.before
            /\ ret.data = [i \in 1..n |-> handle.data[ret.offset + i]]

C18_Witness ==
    /\ Did("Read") /\ ret.before.dirty
    /\ handle.data = << 100, 101 >>
    /\ objects[handle.key] = Absent
    /\ ret.offset = 0 /\ ret.size = 2
    /\ ret.data = << 100, 101 >>

\* what a successful upload of handle h leaves behind
Uploaded(h) ==
    /\ ret.calls = << "PutObject" >>
    /\ FsPlain(h.key) = [ok |-> TRUE, data |-> h.data]
    /\ ~fsCrypto.nil => Len(objects[h.key]) = EncryptedLen(fsCrypto.layers, Len(h.data))
    /\ metadataCache[h.key] = [size |-> Len(h.data), lastModified |-> now,
                               isDir |-> FALSE, cacheTime |-> now]

\* C19: a Flush that succeeds on a dirty writable handle has uploaded the buffer
\* with PutObject, encrypted when the mount has a pipeline, has cleared dirty and
\* left a cache entry with the buffer's length and the current time; a Flush on a
\* handle that is not dirty issues no backend call; Release does what Flush does
\* when the handle is dirty and nothing otherwise.
C19_FlushRelease ==
    /\ (Did("Flush") /\ ret.before.writable /\ ret.before.dirty /\ ret.errno = Nil) =>
          /\ Uploaded(ret.before)
          /\ handle = [ret.before EXCEPT !.dirty = FALSE]
    /\ (Did("Flush") /\ ~(ret.before.writable /\ ret.before.dirty)) =>
          /\ ret.calls = << >> /\ ret.errno = Nil
          /\ handle = ret.before
    /\ (Did("Release") /\ ret.before.writable /\ ret.before.dirty /\ ret.errno = Nil) =>
          Uploaded(ret.before)
    /\ (Did("Release") /\ ~(ret.before.writable /\ ret.before.dirty)) =>
          ret.calls = << >> /\ ret.errno = Nil

C19_Witness ==
    /\ Did("Flush") /\ ret.before.dirty /\ ret.errno = Nil
    /\ ~fsCrypto.nil
    /\ ret.before.data = << 100, 101 >>
    /\ metadataCache[ret.key].size = 2
    /\ Len(objects[ret.key]) = 58

\* C20: a Remove with Dir=true on a directory under whose prefix an object other
\* than the marker exists returns ENOTEMPTY (unless the listing itself fails) and
\* issues no DeleteObject, with or without a marker object.
C20_RmdirNonEmpty ==
    (ret.op = "Rmdir" /\ ret.key = DirKey /\ objects[ChildKey] # Absent) =>
        /\ ret.errno = "ENOTEMPTY" \/ (ret.errno # Nil /\ ret.calls = << "ListObjectsV2" >>)
        /\ \A j \in 1..Len(ret.calls) : ret.calls[j] # "DeleteObject"

(***************************************************************************)
(* Properties of handleDelete and of the fan-out of handlePut and          *)
(* handleDelete (Spec).                                                    *)
(***************************************************************************)
\* C29: a DELETE of the object a PUT just stored (both answered by the backends
\* without error) is answered 200 OK, as GUIDE.md and its tests expect.
C29_DeleteReturns200 ==
    (Responded("DELETE") /\ After("PUT") /\ prev.status = 200 /\ ~fault /\ ~prev.fault)
        => resp.status = 200

\* the goroutines that have sent their result and returned
Finished == {i \in Backends : pc[i] = "done"}

\* C30: in handlePut and handleDelete one goroutine runs per binding and sends
\* exactly one result on errCh, which never holds more than its capacity
\* len(bucket.backends); the response is written only when all of them have
\* returned; and no goroutine returns without its backend call unless its own
\* Encrypt failed.
C30_FanOutJoin ==
    /\ Len(errCh) <= NumBackends
    /\ (phase = "Fanout" /\ req.method \in {"PUT", "DELETE"})
          => Len(errCh) = Cardinality(Finished)
    /\ (Responded("DELETE") \/ (Responded("PUT") /\ resp.status # 500)) =>
          /\ Joined
          /\ Len(errCh) = NumBackends
          /\ req.method = "DELETE" => \A i \in Backends : delOutcome[i] # "none"
          /\ req.method = "PUT" =>
                \A i \in Backends : encOutcome[i] # "fail" => putOutcome[i] # "none"

(***************************************************************************)
(* Properties of handleHead (SpecHead).                                    *)
(***************************************************************************)
\* the binding that answered the HEAD: the last one contacted
Answering == contacted[Len(contacted)][2]

\* the Content-Type the key's suffix stands for
DerivedContentType(key) ==
    CASE key = "hello.txt"  -> "text/plain"
      [] key = "data.json"  -> "application/json"
      [] key = "feed.xml"   -> "application/xml"
      [] key = "index.html" -> "text/html"
      [] OTHER              -> "application/octet-stream"

\* C25: a 200 HEAD response carries the backend's content type when the backend
\* reported a non-empty one, and otherwise the type derived from the key's suffix,
\* whether or not the answering binding has a pipeline and whatever the object's
\* length.
C25_HeadContentType ==
    (Responded("HEAD") /\ resp.status = 200) =>
        \/ resp.contentType = "image/png"
        \/ resp.contentType = DerivedContentType(req.key)

\* the HeadObject calls made, in order
HeadProbes == SelectSeq(contacted, LAMBDA c : c[1] = "HeadObject")

\* C26: handleHead probes the bindings in configured order and answers 200 from
\* the first whose HeadObject succeeds; when none succeeds it answers 404 if every
\* error was a not-found error and 502 otherwise; a 200 from a later binding whose
\* object decrypts and whose size probe was answered carries the decrypted length.
C26_HeadFailover ==
    Responded("HEAD") =>
        /\ \A j \in 1..Len(HeadProbes) : HeadProbes[j][2] = j
        /\ \A j \in 1..Len(backendErrors) : backendErrors[j].binding = j
        /\ resp.status = 200 =>
              /\ Len(HeadProbes) = Len(backendErrors) + 1
              /\ store[Answering][req.key] # Absent
              /\ (contacted[Len(contacted)] = <<"GetObject", Answering, "ok">>
                     /\ Plain(Answering).ok)
                    => resp.contentLength = Len(Plain(Answering).data)
        /\ resp.status # 200 =>
              /\ Len(HeadProbes) = NumBackends
              /\ Len(backendErrors) = NumBackends
              /\ resp.status =
                    IF \A j \in 1..NumBackends :
                          backendErrors[j].err \in {"NotFound", "NoSuchKey", "NoSuchBucket"}
                    THEN 404 ELSE 502

C26_Witness ==
    /\ Responded("HEAD") /\ resp.status = 200
    /\ Len(backendErrors) = 1 /\ backendErrors[1].err = "AccessDenied"
    /\ Answering = 2 /\ ~crypto[2].nil
    /\ Plain(2).ok /\ resp.contentLength = 2
    /\ Len(store[2][req.key]) > 2

(***************************************************************************)
(* Properties of the passthrough proxy (SpecDispatch).                     *)
(***************************************************************************)
\* C28: every error while serving a passthrough request (retrieving the
\* credentials, signing, executing against the upstream) is answered 502.
C28_ProxyErrorsAre502 ==
    (hpc = "done" /\ routed = << "handleProxy" >> /\ resp.error # "")
        => resp.status = 502

(***************************************************************************)
(* Properties of the metadata cache and of Rename (SpecMeta).              *)
(***************************************************************************)
\* an Attr on a file node, and whether it was answered without HeadObject
AttrOnFile == ret.op = "Attr" /\ ret.key \in FileKeys
\* the entry Attr found was inserted at most CacheTTL seconds before the call
FreshEntry == ret.entry # NoEntry /\ ret.at - ret.entry.cacheTime <= 30

\* C21: an entry the cache holds for a file right after Flush or an Attr cache
\* miss inserted it, and the size that Attr reports, is the object's size in
\* bytes after decryption, with and without a crypto pipeline.
C21_CachePlainSize ==
    /\ (AttrOnFile /\ ret.errno = Nil /\ ret.calls = << "HeadObject" >>
          /\ FsPlain(ret.key).ok) =>
          /\ metadataCache[ret.key].size = Len(FsPlain(ret.key).data)
          /\ ret.attr.size = Len(FsPlain(ret.key).data)
    /\ (ret.op = "Flush" /\ ret.errno = Nil /\ ret.calls = << "PutObject" >>) =>
          metadataCache[ret.key].size = Len(FsPlain(ret.key).data)

\* C22: an Attr on a file whose entry is at most 30 seconds old returns the cached
\* size and mtime without a backend call and leaves the cache alone; an Attr on a
\* file with no entry or an older one calls HeadObject, and when HeadObject
\* succeeds inserts an entry with the current time and reports its size and
\* mtime; when HeadObject fails the cache is left as it was.
C22_CacheTTL ==
    AttrOnFile =>
        /\ FreshEntry =>
              /\ ret.calls = << >> /\ ret.errno = Nil
              /\ ret.attr = [size |-> ret.entry.size, mtime |-> ret.entry.lastModified]
              /\ metadataCache[ret.key] = ret.entry
        /\ ~FreshEntry =>
              /\ ret.calls = << "HeadObject" >>
              /\ ret.errno = Nil =>
                    /\ metadataCache[ret.key].cacheTime = ret.at
                    /\ metadataCache[ret.key].size = Len(objects[ret.key])
                    /\ ret.attr = [size |-> metadataCache[ret.key].size,
                                   mtime |-> metadataCache[ret.key].lastModified]
              /\ ret.errno # Nil => metadataCache[ret.key] = ret.entry

C22_Witness ==
    /\ AttrOnFile /\ ret.errno = Nil
    /\ ret.entry # NoEntry /\ ret.at - ret.entry.cacheTime = 31
    /\ ret.calls = << "HeadObject" >>
    /\ metadataCache[ret.key].cacheTime = ret.at

\* C23: after a successful Remove of a file the cache has no entry for its key;
\* after a successful Rename it has none for the old and none for the new key;
\* after a successful Flush the entry for the key is the one just inserted, with
\* the length of the handle's buffer.
C23_CacheInvalidation ==
    /\ (ret.op = "Remove" /\ ret.errno = Nil) => metadataCache[ret.key] = NoEntry
    /\ (ret.op = "Rename" /\ ret.errno = Nil) =>
          metadataCache[ret.key] = NoEntry /\ metadataCache[ret.newKey] = NoEntry
    /\ (ret.op = "Flush" /\ ret.errno = Nil /\ ret.calls = << "PutObject" >>) =>
          metadataCache[ret.key] = [size |-> Len(handle.data), lastModified |-> ret.at,
                                    isDir |-> FALSE, cacheTime |-> ret.at]

C23_Witness ==
    /\ ret.op = "Remove" /\ ret.errno = Nil
    /\ ret.entry # NoEntry
    /\ metadataCache[ret.key] = NoEntry
    /\ objects[ret.key] = Absent

\* C24: a Rename whose CopyObject fails changes nothing in the bucket and fails;
\* one whose copy succeeds and whose DeleteObject of the old key fails issues a
\* delete of the new key and fails, the old object staying in place; one that
\* succeeds leaves the old object's bytes at the new key and nothing at the old.
C24_Rename ==
    [][(ret'.op = "Rename" /\ nops' = nops + 1) =>
          CASE ret'.calls = << "CopyObject" >> ->
                  /\ ret'.errno # Nil
                  /\ objects' = objects
            [] ret'.calls = << "CopyObject", "DeleteObject", "DeleteObject" >> ->
                  /\ ret'.errno # Nil
                  /\ objects[ret'.key] # Absent
                  /\ \A k \in FsKeys \ {ret'.newKey} : objects'[k] = objects[k]
                  /\ objects'[ret'.newKey] \in {Absent, objects[ret'.key]}
            [] ret'.calls = << "CopyObject", "DeleteObject" >> ->
                  /\ ret'.errno = Nil
                  /\ objects[ret'.key] # Absent
                  /\ objects'[ret'.newKey] = objects[ret'.key]
                  /\ objects'[ret'.key] = Absent
                  /\ \A k \in FsKeys \ {ret'.key, ret'.newKey} : objects'[k] = objects[k]
            [] OTHER -> FALSE]_vars

C24_Witness ==
    /\ ret.op = "Rename" /\ ret.errno = Nil
    /\ ret.key = FileKey /\ ret.newKey = ChildKey
    /\ objects[ChildKey] = StoredBlob(fsCrypto) /\ objects[FileKey] = Absent

(***************************************************************************)
(* Properties of the error mapping (SpecErrors).                           *)
(***************************************************************************)
\* the errno C27 gives for an error
ErrnoOf(e) ==
    CASE e \in {"NoSuchBucket", "NoSuchKey", "*types.NoSuchBucket", "*types.NoSuchKey"}
            -> "ENOENT"
      [] e \in {"AccessDenied", "Forbidden", "InvalidAccessKeyId", "SignatureDoesNotMatch"}
            -> "EACCES"
      [] e \in {"BucketAlreadyExists", "BucketAlreadyOwnedByYou",
                "*types.BucketAlreadyExists", "*types.BucketAlreadyOwnedByYou"}
            -> "EEXIST"
      [] OTHER -> "EIO"

\* C27: a callback that fails with a backend or crypto error returns ENOENT for
\* NoSuchBucket and NoSuchKey, EACCES for AccessDenied, Forbidden,
\* InvalidAccessKeyId and SignatureDoesNotMatch, EEXIST for BucketAlreadyExists
\* and BucketAlreadyOwnedByYou, and EIO for a crypto failure and for every other
\* backend error.
C27_ErrorMapping ==
    ret.err # Nil => ret.errno = ErrnoOf(ret.err)

(***************************************************************************)
(* Properties of Flush, Release, Create and Open (SpecFS).                 *)
(***************************************************************************)
\* C38: a Flush that returns an error (Encrypt or PutObject failed) leaves the
\* handle, buffer and dirty flag included, and the cache entry of its key as they
\* were, and has issued no backend call but the PutObject that failed.
C38_FailedFlush ==
    (Did("Flush") /\ ret.errno # Nil) =>
        /\ ret.before.writable /\ ret.before.dirty
        /\ handle = ret.before
        /\ metadataCache[ret.key] = ret.entry
        /\ ret.calls = IF ret.err = "EncryptFailed" THEN << >> ELSE << "PutObject" >>

C38_Witness ==
    /\ Did("Flush") /\ ret.errno = "EACCES"
    /\ handle.dirty /\ handle.data = << 100, 101 >>
    /\ metadataCache[ret.key] = NoEntry

\* C39: after a successful Flush the object at the handle's key decrypts (or, with
\* no pipeline, is equal) to the whole buffer of the handle and to nothing more,
\* whatever was stored there before; a Write at the end of a buffer that was
\* flushed earlier appends to that buffer.
C39_FlushReplaces ==
    /\ (Did("Flush") /\ ret.errno = Nil /\ ret.calls = << "PutObject" >>) =>
          /\ handle.data = ret.before.data
          /\ FsPlain(ret.key) = [ok |-> TRUE, data |-> handle.data]
    /\ (Did("Write") /\ ret.errno = Nil /\ ret.before.writable /\ ~ret.before.dirty
          /\ ret.before.data # NilBuffer /\ ret.offset = Len(ret.before.data)) =>
          /\ handle.data = ret.before.data \o ret.bytes
          /\ handle.dirty

C39_Witness ==
    /\ Did("Flush") /\ ret.errno = Nil /\ ret.calls = << "PutObject" >>
    /\ ret.before.data = << 0, 88 >>
    /\ FsPlain(ret.key) = [ok |-> TRUE, data |-> << 0, 88 >>]
    /\ ~fsCrypto.nil

\* C40: the handle Create returns is dirty with an empty buffer, and releasing it
\* without a Write uploads an object whose plaintext is empty; the handle Open
\* returns for writing is not dirty, and releasing a handle that is not dirty
\* issues no backend call.
C40_CreateOpenStart ==
    /\ ret.op = "Create" => (handle.dirty /\ handle.writable /\ handle.data = << >>)
    /\ (ret.op = "Open" /\ ret.errno = Nil) => (~handle.dirty /\ handle.data = NilBuffer)
    /\ (Did("Release") /\ ret.before.dirty /\ ret.before.data = << >> /\ ret.errno = Nil) =>
          /\ ret.calls = << "PutObject" >>
          /\ FsPlain(ret.key) = [ok |-> TRUE, data |-> << >>]
    /\ (Did("Release") /\ ~ret.before.dirty) =>
          /\ ret.calls = << >> /\ ret.errno = Nil

C40_Witness ==
    /\ Did("Release") /\ ret.before.dirty /\ ret.before.data = << >> /\ ret.errno = Nil
    /\ ret.calls = << "PutObject" >>
    /\ ~fsCrypto.nil /\ Len(objects[ret.key]) = 56
    /\ FsPlain(ret.key) = [ok |-> TRUE, data |-> << >>]

\* C37: a Rename that returns an error leaves the object at the new key as it was
\* before the call, and the object at the old key in place.
C37_FailedRenameFrame ==
    [][(ret'.op = "Rename" /\ nops' = nops + 1 /\ ret'.errno # Nil) =>
          /\ objects'[ret'.newKey] = objects[ret'.newKey]
          /\ ret'.key \in DOMAIN objects => objects'[ret'.key] = objects[ret'.key]]_vars

(***************************************************************************)
(* Properties of Lookup (SpecLookup).                                      *)
(***************************************************************************)
\* the backend answered every probe of the Lookup for what the bucket holds
Faithful == \A i \in 1..Len(ret.probes) : ret.probes[i] \in {Nil, "NotFound"}
LookedUp == ret.op = "Lookup" /\ ret.errno # "ENOTDIR"
DirNode(key) == [key |-> key, isDir |-> TRUE]
FileNode(key) == [key |-> key, isDir |-> FALSE]

\* C34: a Lookup of a name in a directory asks HeadObject for name + "/", then
\* HeadObject for name, then ListObjectsV2 of the prefix name + "/", and returns
\* at the first probe that hits: a directory node, a file node, a directory node;
\* when the backend answers each probe for what the bucket holds, the result is
\* the directory if name + "/" exists (also when name exists too), else the file
\* if name exists, else the directory if a key under name + "/" exists, else
\* ENOENT.
C34_LookupOrder ==
    LookedUp =>
       /\ ret.calls = SubSeq(<< "HeadObject", "HeadObject", "ListObjectsV2" >>, 1,
                             Len(ret.probes))
       /\ Len(ret.probes) \in 1..3
       /\ \A i \in 1..(Len(ret.probes) - 1) : ret.probes[i] # Nil
       /\ CASE Len(ret.probes) = 1 ->
                  ret.probes[1] = Nil /\ ret.node = DirNode(ret.newKey) /\ ret.errno = Nil
            [] Len(ret.probes) = 2 ->
                  ret.probes[2] = Nil /\ ret.node = FileNode(ret.key) /\ ret.errno = Nil
            [] OTHER ->
                  IF ret.probes[3] # Nil
                  THEN ret.errno = mapS3Error(ret.probes[3]) /\ ret.node = NoNode
                  ELSE IF \E k \in DOMAIN objects :
                             objects[k] # Absent /\ HasPrefix(k, ret.newKey)
                  THEN ret.node = DirNode(ret.newKey) /\ ret.errno = Nil
                  ELSE ret.node = NoNode /\ ret.errno = "ENOENT"
       /\ Faithful =>
             IF ObjectAt(ret.newKey) # Absent
             THEN ret.node = DirNode(ret.newKey) /\ ret.errno = Nil
             ELSE IF ObjectAt(ret.key) # Absent
             THEN ret.node = FileNode(ret.key) /\ ret.errno = Nil
             ELSE IF \E k \in DOMAIN objects : objects[k] # Absent /\ HasPrefix(k, ret.newKey)
             THEN ret.node = DirNode(ret.newKey) /\ ret.errno = Nil
             ELSE ret.node = NoNode /\ ret.errno = "ENOENT"

\* the file "d" and the directory marker "d/" both exist, and Lookup("d") returned
\* the directory
C34_Witness ==
    /\ LookedUp /\ Faithful
    /\ ret.key = DirName
    /\ objects[DirName] # Absent /\ objects[DirKey] # Absent
    /\ ret.node = DirNode(DirKey)

(***************************************************************************)
(* Cancellation (SpecCancel).                                              *)
(***************************************************************************)
\* C31: once the context of the request is cancelled, no backend call of that
\* request runs to completion: no PutObject and no DeleteObject of the request
\* succeeds, no bucket changes, and no GetObject returns an object.
C31_CancelReachesBackends ==
    [][req.cancelled =>
          /\ store' = store
          /\ \A i \in Backends :
                /\ putOutcome'[i] = "ok" => putOutcome[i] = "ok"
                /\ delOutcome'[i] = Nil => delOutcome[i] = Nil
          /\ (req.method = "GET" /\ phase = "Fanout" /\ phase' = "Responded") =>
                resp'.status # 200]_vars

(***************************************************************************)
(* The request state machine (SpecServe).                                  *)
(***************************************************************************)
\* the state of the request: 1 Received, 2 Authenticated, 3 Routed, 4 Fanout,
\* 5 Collected, 6 Responded
Collected ==
    IF req.method \in {"PUT", "DELETE"} THEN Joined ELSE idx > NumBackends
ServeState ==
    IF written # << >> \/ phase = "Responded" THEN 6
    ELSE IF phase = "Fanout" THEN (IF Collected THEN 5 ELSE 4)
    ELSE IF routed # << >> THEN 3
    ELSE IF hpc \in {"authenticated", "parsed"} THEN 2
    ELSE 1
\* the status of the one response of the request (0: none yet)
ServeStatus ==
    IF written # << >> THEN written[Len(written)].status ELSE resp.status
ServeAnswered == ServeState = 6

\* C32: with every enabled step eventually taken (every backend call returns),
\* an object-level request eventually is Responded; it moves through Received,
\* Authenticated, Routed, Fanout, Collected in that order, never backwards, or
\* goes to Responded from where it is; it is answered once, by ServeHTTP or by
\* the handler and then no more; the status is one of 200, 204, 401, 404, 500,
\* 502.
C32_RequestStateMachine ==
    /\ [](/\ Len(written) <= 1
          /\ written # << >> => (phase = "Idle" /\ resp = NoResp /\ routed = << >>)
          /\ ServeAnswered <=> ServeStatus # 0
          /\ ServeStatus \in {0, 200, 204, 401, 404, 500, 502})
    /\ [][/\ ServeState' >= ServeState
          /\ ServeState' \in {ServeState, ServeState + 1, 6}
          /\ ServeState = 6 => (resp' = resp /\ written' = written)
          /\ progress' # progress]_vars
    /\ <>ServeAnswered

\* a PUT went through every state and was answered 200
C32_Witness ==
    /\ ServeAnswered /\ r.method = "PUT" /\ authErr = Nil
    /\ routed = << "handlePut" >> /\ Joined
    /\ resp.status = 200 /\ written = << >>

(***************************************************************************)
(* The registry of logical buckets (SpecNew).                              *)
(***************************************************************************)
\* C35: once New has returned without error every bucket of p.buckets has at
\* least one backend, and no request is evaluated against a bucket whose list
\* of backends is empty.
C35_RegistryNonEmpty ==
    /\ (started /\ newErr = Nil) => \A n \in DOMAIN pBuckets : Len(pBuckets[n]) >= 1
    /\ served # NoServed => served.bindings >= 1

(***************************************************************************)
(* Properties of overlapping callbacks (SpecConc).                         *)
(***************************************************************************)
\* C33: every access of a callback to the buffer or the dirty flag of the
\* handle is made while the callback holds h.mu.
C33_HandleAccessUnderMutex == unsynced = {}

\* C36: a key that a Remove deleted, its call returned, and that nothing
\* uploaded again since, has no entry in the metadata cache.
C36_NoEntryAfterRemove ==
    \A k \in gone : objects[k] = Absent => metadataCache[k] = NoEntry

====
